---- MODULE Spec2Model ----
(***************************************************************************)
(* Model of the DocuChat server core: quota ledger, upload / validation    *)
(* pipeline, document lifecycle, ingestion and the vector-retrieval cache. *)
(*                                                                         *)
(* Concurrency model.  Every route handler is an `async def` whose body    *)
(* holds no await, so inside one server process a handler runs to its end  *)
(* before the next one starts.  The database, the upload directory and     *)
(* the index directory are shared by all server processes ("multiple       *)
(* workers", core/rate_limiter.py), each request has its own database      *)
(* Session, and process-local state (_db_cache) exists once per process.   *)
(* A worker below is one server process: it runs one handler at a time,    *)
(* and handlers of different workers interleave at every access to the     *)
(* shared database or file system.                                         *)
(***************************************************************************)
EXTENDS Integers, Sequences, FiniteSets, TLC

NULL == "null"              \* None, for a string
NoRec == [none |-> TRUE]    \* None, for a record (a row, a handle, a file)
NoCount == -1               \* NULL of the Integer column chunk_count

(* ----------------------------- bounds --------------------------------- *)
NumWorkers == 2          \* server processes
MaxDocId == 3            \* document rows ever created in one behaviour
MaxDay == 1              \* calendar days after the first one
MaxOps == 4              \* handlers started in one behaviour
MaxBackendFaults == 1    \* injected embedding / storage / LLM failures
MaxBatch == 2            \* files in one multi-file upload request

(* Program constants, scaled to small units (source values in comments).  *)
FreeMaxDocuments == 2    \* quota_service.py:33   50
FreeMaxStorage == 4      \* quota_service.py:34   500 MB
FreeMaxQueries == 2      \* quota_service.py:35   1000
ProMaxDocuments == 3     \* quota_service.py:39   1000
ProMaxStorage == 6       \* quota_service.py:40   10 GB
ProMaxQueries == 3       \* quota_service.py:41   50000
MAX_FILE_SIZE == 2       \* upload.py:21          10 MB
MAX_EXTRACTED_SIZE == 5  \* file_validator.py:39  100 MB
MaxRatio == 3            \* file_validator.py:185 100 (to 1)
TopK == 3                \* retrieval_service.py:84 k
Unlimited == -1          \* quota_service.py:45

Workers == 1..NumWorkers
Tenants == {"t1", "t2"}

(* ------------------------- Security validator ------------------------- *)

ALLOWED_EXTENSIONS ==
    {".pdf", ".txt", ".md", ".docx", ".doc", ".csv", ".json",
     ".py", ".js", ".jsx", ".ts", ".tsx", ".html", ".css"}

MIME_TYPE_MAPPING == ALLOWED_EXTENSIONS

Magics == {"MZ", "ELF", "MACHO", "PK", "none"}

(* A path is the declared extension plus whether ".tmp" was appended.     *)
Suffix(path) == IF path.tmp THEN ".tmp" ELSE path.ext

(* validate_mime_type: the extension looked up is the real one for a      *)
(* ".tmp" path; a MIME mismatch is only logged.                           *)
validate_mime_type(path) ==
    IF path.ext \in MIME_TYPE_MAPPING THEN "ok" ELSE "ext"

validate_file_size(content, max_size) ==
    IF content.size > max_size THEN "size" ELSE "ok"

check_executable_content(path, content) ==
    CASE content.magic \in {"MZ", "ELF", "MACHO"} -> "exec"
      [] content.magic = "PK" ->
            IF Suffix(path) \notin {".docx", ".zip"} THEN "zipsig" ELSE "ok"
      [] OTHER -> "ok"

check_zip_bomb(path, content) ==
    IF Suffix(path) \notin {".zip", ".docx"} THEN "ok"
    ELSE IF ~content.isZip
         THEN (IF Suffix(path) = ".docx" THEN "bad_docx" ELSE "ok")
    ELSE IF content.zipTotal > MAX_EXTRACTED_SIZE THEN "bomb_size"
    ELSE IF content.size > 0 /\ content.zipTotal > MaxRatio * content.size
         THEN "bomb_ratio"
    ELSE "ok"

scan_pdf_content(content) ==
    IF content.markers THEN "pdf_marker" ELSE "ok"

(* validate_file_comprehensive: the first failing check gives the reason;  *)
(* `present` is whether a regular file exists at the path.                *)
validate_file_comprehensive(path, present, content, max_size) ==
    IF ~present THEN "missing"
    ELSE IF validate_file_size(content, max_size) # "ok" THEN "size"
    ELSE IF validate_mime_type(path) # "ok" THEN "ext"
    ELSE IF check_executable_content(path, content) # "ok"
         THEN check_executable_content(path, content)
    ELSE IF check_zip_bomb(path, content) # "ok" THEN check_zip_bomb(path, content)
    ELSE IF Suffix(path) = ".pdf" THEN scan_pdf_content(content)
    ELSE "ok"

(* upload.validate_file without its extension test.                       *)
validate_file_AnyExt(file) ==
    IF file.content.size > MAX_FILE_SIZE THEN "size413"
    ELSE "ok"

(* upload.validate_file: the pre-check of upload_documents.               *)
validate_file(file) ==
    IF file.ext \notin ALLOWED_EXTENSIONS THEN "ext400"
    ELSE IF file.content.size > MAX_FILE_SIZE THEN "size413"
    ELSE "ok"

(* ----------------------------- state ---------------------------------- *)
VARIABLES
    today,        \* date.today()
    quotas,       \* table user_quotas: tenant -> row or NoRec
    documents,    \* table documents: set of rows
    nextDocId,    \* the documents.id sequence
    dirs,         \* tenants whose upload directory exists
    fs,           \* files under the upload directory: set of [path, content]
    pg,           \* table document_chunks: row -> number of copies
    faiss,        \* saved FAISS index per tenant directory, or NoRec
    cache,        \* _db_cache of each worker: cache key -> handle or NoRec
    wk,           \* each worker's running handler: position and locals
    useSupabase,  \* USE_SUPABASE_VECTOR
    railway,      \* RAILWAY_ENVIRONMENT is set
    menu,         \* the files clients upload in this behaviour
    active,       \* the tenants sending requests in this behaviour
    ops,          \* handlers started so far
    faults        \* backend failures injected so far

vars == <<today, quotas, documents, nextDocId, dirs, fs, pg, faiss, cache, wk,
          useSupabase, railway, menu, active, ops, faults>>

config == <<useSupabase, railway, menu, active>>
dbVars == <<quotas, documents, nextDocId>>
fsVars == <<dirs, fs>>
ixVars == <<pg, faiss, cache>>

(* ----------------------------- files ---------------------------------- *)
Content(size, magic, isZip, zipTotal, markers, loadable) ==
    [size |-> size, magic |-> magic, isZip |-> isZip, zipTotal |-> zipTotal,
     markers |-> markers, loadable |-> loadable]

UploadFile(name, ext, content) == [name |-> name, ext |-> ext, content |-> content]

NotesTxt == UploadFile("notes", ".txt", Content(1, "none", FALSE, 0, FALSE, TRUE))
LongTxt == UploadFile("long", ".txt", Content(2, "none", FALSE, 0, FALSE, TRUE))
HugeTxt ==
    UploadFile("huge", ".txt", Content(MAX_FILE_SIZE + 1, "none", FALSE, 0, FALSE, TRUE))
ReportPdf == UploadFile("report", ".pdf", Content(1, "none", FALSE, 0, FALSE, TRUE))
BrokenPdf == UploadFile("broken", ".pdf", Content(1, "none", FALSE, 0, FALSE, FALSE))
ExePdf == UploadFile("report", ".pdf", Content(1, "MZ", FALSE, 0, FALSE, FALSE))
ScriptPdf == UploadFile("form", ".pdf", Content(1, "none", FALSE, 0, TRUE, TRUE))
MemoDocx == UploadFile("memo", ".docx", Content(1, "PK", TRUE, 2, FALSE, TRUE))
BombDocx ==
    UploadFile("memo", ".docx",
               Content(1, "PK", TRUE, MAX_EXTRACTED_SIZE + 1, FALSE, FALSE))
SfxBombDocx ==
    UploadFile("memo", ".docx",
               Content(1, "none", TRUE, MAX_EXTRACTED_SIZE + 1, FALSE, FALSE))
ToolExe == UploadFile("tool", ".exe", Content(1, "MZ", FALSE, 0, FALSE, FALSE))

(* A stored path: tenant directory, file name, the "_k" de-duplication    *)
(* counter (0: none), and whether ".tmp" is appended.                     *)
FilePath(dir, file, k, tmp) ==
    [dir |-> dir, name |-> file.name, ext |-> file.ext, k |-> k, tmp |-> tmp]

Exists(path) == \E e \in fs : e.path = path
ContentAt(path) == (CHOOSE e \in fs : e.path = path).content
WriteFile(files, path, content) ==
    {e \in files : e.path # path} \cup {[path |-> path, content |-> content]}
RemoveFile(files, path) == {e \in files : e.path # path}

(* ------------------------------ quota --------------------------------- *)
TIER_LIMITS ==
    [free |-> [max_documents |-> FreeMaxDocuments,
               max_storage_bytes |-> FreeMaxStorage,
               max_queries_per_day |-> FreeMaxQueries],
     pro |-> [max_documents |-> ProMaxDocuments,
              max_storage_bytes |-> ProMaxStorage,
              max_queries_per_day |-> ProMaxQueries],
     enterprise |-> [max_documents |-> Unlimited,
                     max_storage_bytes |-> Unlimited,
                     max_queries_per_day |-> Unlimited]]

get_tier_limits(tier) ==
    IF tier \in DOMAIN TIER_LIMITS THEN TIER_LIMITS[tier] ELSE TIER_LIMITS["free"]

NewQuota(day) ==
    [tier |-> "free", document_count |-> 0, total_storage_bytes |-> 0,
     queries_today |-> 0, last_query_reset |-> day]

(* check_document_quota refusing only above max_documents.               *)
check_document_quota_Above(q, file_size) ==
    LET limits == get_tier_limits(q.tier) IN
    IF limits.max_documents > 0 /\ q.document_count > limits.max_documents
    THEN "QuotaExceeded"
    ELSE IF limits.max_storage_bytes > 0
            /\ q.total_storage_bytes + file_size > limits.max_storage_bytes
    THEN "QuotaExceeded"
    ELSE "ok"

(* check_document_quota on a loaded row. *)
check_document_quota(q, file_size) ==
    LET limits == get_tier_limits(q.tier) IN
    IF limits.max_documents > 0 /\ q.document_count >= limits.max_documents
    THEN "QuotaExceeded"
    ELSE IF limits.max_storage_bytes > 0
            /\ q.total_storage_bytes + file_size > limits.max_storage_bytes
    THEN "QuotaExceeded"
    ELSE "ok"

(* check_query_quota's comparison on a loaded row. *)
check_query_limit(q) ==
    LET limits == get_tier_limits(q.tier) IN
    IF limits.max_queries_per_day > 0 /\ q.queries_today >= limits.max_queries_per_day
    THEN "QuotaExceeded" ELSE "ok"

Max(a, b) == IF a >= b THEN a ELSE b

(* The UPDATE a commit flushes: only the columns whose value differs from *)
(* the loaded one are written; the other columns keep the stored value.   *)
Flush(row, loaded, new) ==
    [c \in DOMAIN row |-> IF new[c] # loaded[c] THEN new[c] ELSE row[c]]

DocsOf(t) == {d \in documents : d.user_id = t}

RECURSIVE SumSizes(_)
SumSizes(S) ==
    IF S = {} THEN 0
    ELSE LET d == CHOOSE x \in S : TRUE IN d.file_size + SumSizes(S \ {d})

(* ----------------------------- workers -------------------------------- *)
IdleW ==
    [pc |-> "idle", op |-> NULL, user |-> NULL, file |-> NoRec, k |-> 0,
     doc |-> 0, size |-> 0, q |-> NoRec, back |-> NULL, seen |-> NoRec,
     verdict |-> NULL, pend |-> {}, todo |-> {}, chunks |-> {}, nproc |-> 0,
     agg |-> NoRec,
     began |-> 0, day |-> 0, prior |-> NULL, how |-> NULL, err |-> NULL,
     rest |-> <<>>, uploaded |-> 0, errors |-> 0,
     path |-> NoRec, ran |-> <<>>,
     res |-> NULL]

Free(w) == wk[w].pc \in {"idle", "done"}

Set(w, r) == wk' = [wk EXCEPT ![w] = r]
(* The handler returns: its response is kept, with what the validator read *)
(* and answered, until the worker starts its next handler.                *)
DoneOf(rec, res) ==
    [IdleW EXCEPT !.pc = "done", !.op = rec.op, !.user = rec.user,
                  !.file = rec.file, !.doc = rec.doc,
                  !.seen = rec.seen, !.verdict = rec.verdict,
                  !.chunks = IF rec.op \in {"chat", "retrieve"} THEN rec.chunks
                             ELSE {},
                  !.began = rec.began, !.prior = rec.prior, !.how = rec.how,
                  !.err = rec.err,
                  !.uploaded = rec.uploaded, !.errors = rec.errors,
                  !.path = rec.path, !.ran = rec.ran,
                  !.res = res]

DoneRec(w, res) == DoneOf(wk[w], res)

Done(w, res) == Set(w, DoneRec(w, res))

(* History: what clear_vector_db_cache(user) did when the handler called *)
(* it, a handle dropped or nothing to drop.                               *)
Cleared(w) == IF cache[w][wk[w].user] # NoRec THEN "dropped" ELSE "cleared"

DoneCleared(w, res) == Set(w, [DoneRec(w, res) EXCEPT !.how = Cleared(w)])

Goto(w, pc) == Set(w, [wk[w] EXCEPT !.pc = pc])

Started == ops < MaxOps /\ ops' = ops + 1

(* get_or_create_quota's SELECT: found -> the handler continues at `next` *)
(* with the row loaded in q; not found -> the INSERT follows.             *)
QuotaSelect(w, next) ==
    LET t == wk[w].user IN
    IF quotas[t] # NoRec
    THEN Set(w, [wk[w] EXCEPT !.pc = next, !.q = quotas[t]])
    ELSE Set(w, [wk[w] EXCEPT !.pc = "goc_insert", !.back = wk[w].pc])

(* upload_documents, when save_file has accepted or refused one file of   *)
(* the request with outcome r: QuotaExceededError is raised again and     *)
(* ends the request; any other failure is appended to errors and the loop *)
(* goes on; after the last file the request fails if nothing was uploaded *)
(* and answers with the uploaded documents otherwise.                     *)
AfterFile(rec, r) ==
    LET counted == [rec EXCEPT
                       !.uploaded = @ + (IF r = "ok" THEN 1 ELSE 0),
                       !.errors = @ + (IF r \in {"ok", "QuotaExceeded"} THEN 0 ELSE 1)]
    IN IF r = "QuotaExceeded" THEN DoneOf(counted, r)
       ELSE IF rec.rest # <<>> THEN [counted EXCEPT !.pc = "up_next"]
       ELSE DoneOf(counted, IF counted.uploaded > 0 THEN "ok" ELSE r)

FileEnd(w, r) == Set(w, AfterFile(wk[w], r))

(* The commit of this request's Session has failed: the Session refuses   *)
(* every later statement until a rollback, so this file and the files     *)
(* left in the request all end in errors.                                 *)
SessionBroken(rec) ==
    LET counted == [rec EXCEPT !.errors = @ + 1 + Len(rec.rest), !.rest = <<>>]
    IN DoneOf(counted, IF counted.uploaded > 0 THEN "ok" ELSE "error500")

(* get_or_create_quota's INSERT and commit (then refresh: the SELECT is   *)
(* run again).  A row inserted meanwhile by another worker violates the   *)
(* primary key and the handler fails.                                     *)
GocInsert(w) ==
    /\ wk[w].pc = "goc_insert"
    /\ IF quotas[wk[w].user] = NoRec
       THEN /\ quotas' = [quotas EXCEPT ![wk[w].user] = NewQuota(today)]
            /\ Goto(w, wk[w].back)
       ELSE /\ IF wk[w].op = "upload"
               THEN Set(w, SessionBroken(wk[w]))
               ELSE Done(w, "error500")
            /\ UNCHANGED quotas
    /\ UNCHANGED <<today, documents, nextDocId, fsVars, ixVars, config, ops, faults>>

(* --------------------------- upload ----------------------------------- *)
Uploading == {w \in Workers : wk[w].op = "upload" /\ wk[w].pc # "done"}

TempPath(w) == FilePath(wk[w].user, wk[w].file, wk[w].k, TRUE)
FinalPath(w) == FilePath(wk[w].user, wk[w].file, wk[w].k, FALSE)

(* The duplicate-name loop of save_file: the first counter whose final    *)
(* path does not exist.                                                   *)
FreeCounter(t, file) ==
    CHOOSE k \in 0..(Cardinality(fs) + 1) :
        /\ ~Exists(FilePath(t, file, k, FALSE))
        /\ \A j \in 0..(k - 1) : Exists(FilePath(t, file, j, FALSE))

(* upload_documents for one file: validate_file, then save_file begins.   *)
UpStart(w, t, f) ==
    /\ Free(w)
    /\ Started
    /\ nextDocId + Cardinality(Uploading) <= MaxDocId
    /\ IF validate_file(f) = "ok"
       THEN Set(w, [IdleW EXCEPT !.pc = "up_quota", !.op = "upload", !.user = t,
                                 !.file = f, !.size = f.content.size])
       ELSE Set(w, [IdleW EXCEPT !.pc = "done", !.op = "upload", !.user = t,
                                 !.file = f, !.res = validate_file(f)])
    /\ UNCHANGED <<today, dbVars, fsVars, ixVars, config, faults>>

(* save_file: check_document_quota(user_id, file_size).                   *)
UpQuota(w) ==
    /\ wk[w].pc = "up_quota"
    /\ LET t == wk[w].user IN
       IF quotas[t] = NoRec
       THEN Set(w, [wk[w] EXCEPT !.pc = "goc_insert", !.back = "up_quota"])
       ELSE IF check_document_quota(quotas[t], wk[w].size) = "ok"
            THEN Goto(w, "up_name")
            ELSE FileEnd(w, "QuotaExceeded")
    /\ UNCHANGED <<today, dbVars, fsVars, ixVars, config, ops, faults>>

(* save_file: mkdir, sanitize, the duplicate-name loop.                    *)
UpName(w) ==
    /\ wk[w].pc = "up_name"
    /\ dirs' = dirs \cup {wk[w].user}
    /\ Set(w, [wk[w] EXCEPT !.pc = "up_write",
                            !.k = FreeCounter(wk[w].user, wk[w].file)])
    /\ UNCHANGED <<today, dbVars, fs, ixVars, config, ops, faults>>

(* save_file: the upload is written to the temporary path.                *)
UpWrite(w) ==
    /\ wk[w].pc = "up_write"
    /\ fs' = WriteFile(fs, TempPath(w), wk[w].file.content)
    /\ Goto(w, "up_validate")
    /\ UNCHANGED <<today, dbVars, dirs, ixVars, config, ops, faults>>

(* save_file: validate_file_comprehensive(temp_path, MAX_FILE_SIZE).      *)
UpValidate(w) ==
    /\ wk[w].pc = "up_validate"
    /\ LET present == Exists(TempPath(w))
           content == IF present THEN ContentAt(TempPath(w)) ELSE NoRec
           v == validate_file_comprehensive(TempPath(w), present, content,
                                            MAX_FILE_SIZE)
       IN Set(w, [wk[w] EXCEPT !.pc = IF v = "ok" THEN "up_rename" ELSE "up_unlink",
                               !.seen = content, !.verdict = v])
    /\ UNCHANGED <<today, dbVars, fsVars, ixVars, config, ops, faults>>

(* save_file: temp_path.rename(file_path); a missing temp file raises and  *)
(* the handler answers 500.                                               *)
UpRename(w) ==
    /\ wk[w].pc = "up_rename"
    /\ IF Exists(TempPath(w))
       THEN /\ fs' = WriteFile(RemoveFile(fs, TempPath(w)), FinalPath(w),
                               ContentAt(TempPath(w)))
            /\ Goto(w, "up_create")
       ELSE /\ FileEnd(w, "error500")
            /\ UNCHANGED fs
    /\ UNCHANGED <<today, dbVars, dirs, ixVars, config, ops, faults>>

(* save_file, on a validation failure: the temp file is removed.          *)
UpUnlink(w) ==
    /\ wk[w].pc = "up_unlink"
    /\ fs' = RemoveFile(fs, TempPath(w))
    /\ FileEnd(w, "rejected400")
    /\ UNCHANGED <<today, dbVars, dirs, ixVars, config, ops, faults>>

NewDocument(id, t, path, size) ==
    [id |-> id, user_id |-> t, path |-> path, file_size |-> size,
     status |-> "pending", chunk_count |-> NoCount, error_message |-> NULL]

(* save_file: stat of the stored file, then doc_repo.create.              *)
UpCreate(w) ==
    /\ wk[w].pc = "up_create"
    /\ IF Exists(FinalPath(w))
       THEN LET size == ContentAt(FinalPath(w)).size IN
            /\ documents' = documents \cup
                   {NewDocument(nextDocId, wk[w].user, FinalPath(w), size)}
            /\ nextDocId' = nextDocId + 1
            /\ Set(w, [wk[w] EXCEPT !.pc = "up_inc_select", !.doc = nextDocId,
                                    !.size = size])
       ELSE /\ FileEnd(w, "error500")
            /\ UNCHANGED <<documents, nextDocId>>
    /\ UNCHANGED <<today, quotas, fsVars, ixVars, config, ops, faults>>

(* increment_document_count: get_or_create_quota.                         *)
UpIncSelect(w) ==
    /\ wk[w].pc = "up_inc_select"
    /\ QuotaSelect(w, "up_inc_commit")
    /\ UNCHANGED <<today, dbVars, fsVars, ixVars, config, ops, faults>>

(* increment_document_count on the loaded row `q`.                        *)
increment_document_count(q, file_size) ==
    [q EXCEPT !.document_count = q.document_count + 1,
              !.total_storage_bytes = q.total_storage_bytes + file_size]

(* increment_document_count: the two counters are raised and committed.   *)
UpIncCommit(w) ==
    /\ wk[w].pc = "up_inc_commit"
    /\ quotas' = [quotas EXCEPT ![wk[w].user] =
                     Flush(@, wk[w].q, increment_document_count(wk[w].q, wk[w].size))]
    /\ FileEnd(w, "ok")
    /\ UNCHANGED <<today, documents, nextDocId, fsVars, ixVars, config, ops, faults>>

Upload(w) ==
    \/ \E t \in active, f \in menu : UpStart(w, t, f)
    \/ UpQuota(w) \/ UpName(w) \/ UpWrite(w) \/ UpValidate(w) \/ UpRename(w)
    \/ UpUnlink(w) \/ UpCreate(w) \/ UpIncSelect(w) \/ UpIncCommit(w)

(* The files the running upload requests have still to go through.        *)
RECURSIVE FilesLeft(_)
FilesLeft(S) ==
    IF S = {} THEN 0
    ELSE LET w == CHOOSE x \in S : TRUE IN
         (IF wk[w].pc = "up_next" THEN 0 ELSE 1) + Len(wk[w].rest)
             + FilesLeft(S \ {w})

(* The lists of files a client sends in one request.                      *)
Batches == UNION {[1..n -> menu] : n \in 1..MaxBatch}

(* upload_documents for a list of files: the loop over the files begins.  *)
UpStartBatch(w, t, files) ==
    /\ Free(w)
    /\ Started
    /\ nextDocId - 1 + FilesLeft(Uploading) + Len(files) <= MaxDocId
    /\ Set(w, [IdleW EXCEPT !.pc = "up_next", !.op = "upload", !.user = t,
                             !.rest = files])
    /\ UNCHANGED <<today, dbVars, fsVars, ixVars, config, faults>>

(* The loop takes the next file: validate_file, then save_file begins.    *)
UpNext(w) ==
    /\ wk[w].pc = "up_next"
    /\ wk[w].rest # <<>>
    /\ LET f == Head(wk[w].rest)
           rec == [wk[w] EXCEPT !.file = f, !.rest = Tail(@), !.size = f.content.size,
                                !.k = 0, !.doc = 0, !.q = NoRec, !.back = NULL,
                                !.seen = NoRec, !.verdict = NULL]
       IN IF validate_file(f) = "ok"
          THEN Set(w, [rec EXCEPT !.pc = "up_quota"])
          ELSE Set(w, AfterFile(rec, validate_file(f)))
    /\ UNCHANGED <<today, dbVars, fsVars, ixVars, config, ops, faults>>

UploadBatch(w) ==
    \/ \E t \in active, files \in Batches : UpStartBatch(w, t, files)
    \/ UpNext(w)
    \/ UpQuota(w) \/ UpName(w) \/ UpWrite(w) \/ UpValidate(w) \/ UpRename(w)
    \/ UpUnlink(w) \/ UpCreate(w) \/ UpIncSelect(w) \/ UpIncCommit(w)

(* ------------------- validate_file_comprehensive ---------------------- *)
(* The checks with the size check moved behind the magic-byte scan.       *)
Checks_SizeLate == <<"exists", "mime", "exec", "size", "zip", "pdf">>

(* The checks in the order of the statements of the function.             *)
Checks == <<"exists", "size", "mime", "exec", "zip", "pdf">>

(* One statement of the function on the file at `path`: "ok", "skip" for  *)
(* the PDF scan of a path whose suffix is not .pdf, or the reason of the  *)
(* FileValidationError it raises.                                         *)
RunCheck(c, path) ==
    CASE c = "exists" -> IF Exists(path) THEN "ok" ELSE "missing"
      [] c = "size" -> validate_file_size(ContentAt(path), MAX_FILE_SIZE)
      [] c = "mime" -> validate_mime_type(path)
      [] c = "exec" -> check_executable_content(path, ContentAt(path))
      [] c = "zip" -> check_zip_bomb(path, ContentAt(path))
      [] c = "pdf" -> IF Suffix(path) = ".pdf" THEN scan_pdf_content(ContentAt(path))
                      ELSE "skip"

(* validate_file_comprehensive(file_path, MAX_FILE_SIZE) is called.       *)
VdStart(w, path) ==
    /\ Free(w)
    /\ Started
    /\ Set(w, [IdleW EXCEPT !.pc = "vd_check", !.op = "validate", !.path = path])
    /\ UNCHANGED <<today, dbVars, fsVars, ixVars, config, faults>>

(* Its next statement: a check that raises ends the call with its reason, *)
(* the last check that passes ends it with acceptance.                    *)
VdCheck(w) ==
    /\ wk[w].pc = "vd_check"
    /\ LET c == Checks[Len(wk[w].ran) + 1]
           r == RunCheck(c, wk[w].path)
           rec == [wk[w] EXCEPT !.ran = IF r = "skip" THEN @ ELSE Append(@, c),
                                !.verdict = IF r = "skip" THEN "ok" ELSE r]
       IN IF r \notin {"ok", "skip"} \/ Len(wk[w].ran) + 1 = Len(Checks)
          THEN Set(w, DoneOf(rec, IF r \in {"ok", "skip"} THEN "ok" ELSE "rejected400"))
          ELSE Set(w, rec)
    /\ UNCHANGED <<today, dbVars, fsVars, ixVars, config, ops, faults>>

(* --------------------------- recalculate ------------------------------ *)
(* recalculate_usage: the aggregate query over the documents table.       *)
RcStart(w, t) ==
    /\ Free(w)
    /\ Started
    /\ Set(w, [IdleW EXCEPT !.pc = "rc_select", !.op = "recalculate", !.user = t,
                  !.agg = [count |-> Cardinality(DocsOf(t)),
                           total_size |-> SumSizes(DocsOf(t))]])
    /\ UNCHANGED <<today, dbVars, fsVars, ixVars, config, faults>>

RcSelect(w) ==
    /\ wk[w].pc = "rc_select"
    /\ QuotaSelect(w, "rc_commit")
    /\ UNCHANGED <<today, dbVars, fsVars, ixVars, config, ops, faults>>

(* recalculate_usage: the two counters are overwritten and committed.     *)
RcCommit(w) ==
    /\ wk[w].pc = "rc_commit"
    /\ quotas' = [quotas EXCEPT ![wk[w].user] =
                     Flush(@, wk[w].q,
                           [wk[w].q EXCEPT !.document_count = wk[w].agg.count,
                                           !.total_storage_bytes = wk[w].agg.total_size])]
    /\ Done(w, "ok")
    /\ UNCHANGED <<today, documents, nextDocId, fsVars, ixVars, config, ops, faults>>

Recalculate(w) ==
    \/ \E t \in active : RcStart(w, t)
    \/ RcSelect(w) \/ RcCommit(w)

(* --------------------------- retrieval -------------------------------- *)
(* A chunk: the tenant directory and file it was cut from, its ordinal,   *)
(* and the user_id that load_document wrote into its metadata.            *)
Chunk(path, ord, tag) == [src |-> path, ord |-> ord, tag |-> tag]

PgRows == DOMAIN pg
PgRowsOf(t) == {r \in PgRows : r.user_id = t}

Min(a, b) == IF a <= b THEN a ELSE b

(* The k nearest of a set of chunks: which ones depends on the query.     *)
Nearest(S, k) == {T \in SUBSET S : Cardinality(T) = Min(k, Cardinality(S))}

(* search_similar_chunks without its WHERE user_id clause.                *)
search_similar_chunks_AnyUser(t) == {r.chunk : r \in PgRows}

(* search_similar_chunks: the rows of document_chunks with this user_id.  *)
search_similar_chunks(t) == {r.chunk : r \in PgRowsOf(t)}

(* The index directory of a user_id, VECTOR_STORE_BASE/<user_id>/         *)
(* faiss_index, named by the user_id; None names the tenant-less global   *)
(* store VECTOR_STORE_BASE/faiss_index.                                   *)
VectorPath(user_id) == user_id

(* cache_key = user_id or "global".                                       *)
CacheKey(user_id) == IF user_id # NULL THEN user_id ELSE "global"

(* clear_vector_db_cache(user_id) deleting nothing.                       *)
clear_vector_db_cache_Noop(c, user_id) == c

(* clear_vector_db_cache(user_id) on one worker's _db_cache.              *)
clear_vector_db_cache(c, user_id) ==
    IF user_id # NULL THEN [c EXCEPT ![user_id] = NoRec]
    ELSE [key \in DOMAIN c |-> NoRec]

(* History: the handles a worker holds for a key when it invalidates the  *)
(* key were loaded before that invalidation.                              *)
MarkOld(c, key) ==
    [c EXCEPT ![key] = IF @ = NoRec THEN @ ELSE [@ EXCEPT !.old = TRUE]]

(* The handler calling clear_vector_db_cache() without a user_id.         *)
Invalidate_All(w, t) ==
    cache' = [cache EXCEPT ![w] = clear_vector_db_cache(MarkOld(cache[w], t), NULL)]

(* The handler calling clear_vector_db_cache(user_id).                    *)
Invalidate(w, t) ==
    cache' = [cache EXCEPT ![w] = clear_vector_db_cache(MarkOld(cache[w], t), t)]

(* get_vector_db(user_id) loading from storage whether cached or not.     *)
get_vector_db_Reload(w, t) ==
    LET key == CacheKey(t) IN
    IF faiss[VectorPath(t)] = NoRec
    THEN <<"none", NoRec, cache[w]>>
    ELSE LET h == [chunks |-> faiss[VectorPath(t)].chunks, old |-> FALSE,
                   path |-> VectorPath(t)] IN
         <<"load", h, [cache[w] EXCEPT ![key] = h]>>

(* get_vector_db(user_id) on worker w: <<how, handle, cache of w after>>. *)
get_vector_db(w, t) ==
    LET key == CacheKey(t) IN
    IF cache[w][key] # NoRec
    THEN <<IF cache[w][key].old THEN "hit_old" ELSE "hit", cache[w][key], cache[w]>>
    ELSE IF faiss[VectorPath(t)] = NoRec
    THEN <<"none", NoRec, cache[w]>>
    ELSE LET h == [chunks |-> faiss[VectorPath(t)].chunks, old |-> FALSE,
                   path |-> VectorPath(t)] IN
         <<"load", h, [cache[w] EXCEPT ![key] = h]>>

(* The FAISS branch of retrieve_context: search, then the user_id filter  *)
(* when a user_id was given.                                              *)
FaissContexts(h, t) ==
    {{c \in T : t # NULL => c.tag = t} : T \in Nearest(h.chunks, TopK)}

(* retrieve_context(query, user_id) on worker w: the contexts it may      *)
(* return, how each was served, and the cache of w afterwards.  pgFails:  *)
(* the pgvector branch raised and the FAISS branch serves the call.       *)
retrieve_context(w, t, pgFails) ==
    IF useSupabase /\ t # NULL /\ ~pgFails
    THEN {[ctx |-> T, how |-> "pg", cache |-> cache[w]] :
             T \in Nearest(search_similar_chunks(t), TopK)}
    ELSE LET g == get_vector_db(w, t) IN
         IF g[2] = NoRec
         THEN {[ctx |-> {}, how |-> g[1], cache |-> g[3]]}
         ELSE {[ctx |-> T, how |-> g[1], cache |-> g[3]] : T \in FaissContexts(g[2], t)}

(* One call of retrieve_context outside a chat request.                   *)
RetrieveContext(w, t) ==
    /\ Free(w)
    /\ Started
    /\ \E pgFails \in {FALSE, useSupabase /\ t # NULL /\ faults < MaxBackendFaults} :
          \E o \in retrieve_context(w, t, pgFails) :
             /\ cache' = [cache EXCEPT ![w] = o.cache]
             /\ faults' = IF pgFails THEN faults + 1 ELSE faults
             /\ Set(w, [IdleW EXCEPT !.pc = "done", !.op = "retrieve", !.user = t,
                                     !.chunks = o.ctx, !.how = o.how, !.res = "ok",
                                     !.prior = IF wk[w].user = t THEN wk[w].how
                                               ELSE NULL])
    /\ UNCHANGED <<today, dbVars, fsVars, pg, faiss, config>>

(* check_ingestion_status: get_vector_db(user_id), ready unless it raises *)
(* RuntimeError.                                                          *)
CheckStatus(w, t) ==
    /\ Free(w)
    /\ Started
    /\ LET g == get_vector_db(w, t) IN
       /\ cache' = [cache EXCEPT ![w] = g[3]]
       /\ Set(w, [IdleW EXCEPT !.pc = "done", !.op = "status", !.user = t,
                               !.how = g[1],
                               !.res = IF g[2] = NoRec THEN "not_ready" ELSE "ready"])
    /\ UNCHANGED <<today, dbVars, fsVars, pg, faiss, config, faults>>

(* One call of retrieve_context over a backend whose tenant scoping is    *)
(* broken: the pgvector query answers with rows of any user_id, the       *)
(* FAISS search with chunks of any tenant's index.                        *)
RetrieveUnscoped(w, t) ==
    /\ Free(w)
    /\ Started
    /\ faults < MaxBackendFaults
    /\ faults' = faults + 1
    /\ LET stored == UNION {faiss[u].chunks : u \in {x \in Tenants : faiss[x] # NoRec}}
           g == get_vector_db(w, t)
           outcomes ==
               IF useSupabase
               THEN {[ctx |-> T, how |-> "pg", cache |-> cache[w]] :
                        T \in IF PgRowsOf(t) = {} THEN {{}}
                              ELSE Nearest({r.chunk : r \in PgRows}, TopK)}
               ELSE IF g[2] = NoRec
               THEN {[ctx |-> {}, how |-> g[1], cache |-> g[3]]}
               ELSE {[ctx |-> T, how |-> g[1], cache |-> g[3]] :
                        T \in FaissContexts([chunks |-> stored], t)}
       IN \E o \in outcomes :
             /\ cache' = [cache EXCEPT ![w] = o.cache]
             /\ Set(w, [IdleW EXCEPT !.pc = "done", !.op = "retrieve", !.user = t,
                                     !.chunks = o.ctx, !.how = o.how, !.res = "ok"])
    /\ UNCHANGED <<today, dbVars, fsVars, pg, faiss, config>>

(* -------------------------- ingest_docs ------------------------------- *)
TextExtensions == ALLOWED_EXTENSIONS \ {".pdf", ".docx", ".doc", ".csv"}

(* load_document: the loader is chosen by the suffix of the path; a       *)
(* suffix without a loader of its own is read by TextLoader.  A file its  *)
(* loader cannot read yields no document.                                 *)
load_document(e) ==
    IF Suffix(e.path) \in ALLOWED_EXTENSIONS
    THEN e.content.loadable
    ELSE e.path.ext \in TextExtensions /\ e.content.loadable

FilesIn(t) == {e \in fs : e.path.dir = t}

(* The splitter's output for one loaded file, tagged by load_document.    *)
ChunksOf(e, user_id) == {Chunk(e.path, i, user_id) : i \in 1..e.content.size}

(* ingest_docs(user_id) up to the split: the error it raises, or the      *)
(* chunks and the number of documents loaded.                             *)
ingest_docs(t) ==
    LET loaded == {e \in FilesIn(t) : load_document(e)} IN
    IF t \notin dirs THEN [err |-> "FileNotFoundError", chunks |-> {}, nproc |-> 0]
    ELSE IF FilesIn(t) = {} \/ loaded = {}
    THEN [err |-> "ValueError", chunks |-> {}, nproc |-> 0]
    ELSE [err |-> NULL, chunks |-> UNION {ChunksOf(e, t) : e \in loaded},
          nproc |-> Cardinality(loaded)]

(* store_document_chunks: one INSERT per chunk, whatever is stored.       *)
store_document_chunks(rows, chunks, user_id) ==
    LET new == {[user_id |-> user_id, chunk |-> c] : c \in chunks} IN
    [r \in DOMAIN rows \cup new |->
        (IF r \in DOMAIN rows THEN rows[r] ELSE 0) + (IF r \in new THEN 1 ELSE 0)]

(* DocumentRepository.update_status: None leaves a column as it is.       *)
update_status(docs, id, status, chunk_count, error_message) ==
    {IF d.id = id
     THEN [d EXCEPT !.status = status,
                    !.chunk_count = IF chunk_count # NoCount THEN chunk_count ELSE @,
                    !.error_message = IF error_message # NULL THEN error_message ELSE @]
     ELSE d : d \in docs}

MinOf(S) == CHOOSE x \in S : \A y \in S : x <= y

(* ingest_docs raised: trigger_ingestion answers 404 or 400 from its      *)
(* first two except clauses and goes to the third for anything else;      *)
(* reingest_document goes to its except clause; delete_document prints a  *)
(* warning and returns.                                                   *)
Raised(w, err) ==
    CASE wk[w].op = "ingest" ->
            IF err = "FileNotFoundError" THEN Done(w, "error404")
            ELSE IF err = "ValueError" THEN Done(w, "error400")
            ELSE Set(w, [wk[w] EXCEPT !.pc = "ing_fail", !.err = err, !.chunks = {}])
      [] wk[w].op = "reingest" ->
            Set(w, [wk[w] EXCEPT !.pc = "ri_fail", !.err = err, !.chunks = {}])
      [] wk[w].op = "delete" -> Done(w, "ok")

(* ingest_docs: the tenant's directory is listed, loaded and split.       *)
IngestLoad(w) ==
    /\ wk[w].pc = "ingest_load"
    /\ LET r == ingest_docs(wk[w].user) IN
       IF r.err # NULL
       THEN Raised(w, r.err)
       ELSE Set(w, [wk[w] EXCEPT !.pc = "ingest_store", !.chunks = r.chunks,
                                 !.nproc = r.nproc])
    /\ UNCHANGED <<today, dbVars, fsVars, ixVars, config, ops, faults>>

(* ingest_docs: the chunks are embedded and written to the selected       *)
(* backend; the embedding model or the backend may raise.  In             *)
(* delete_document, clear_vector_db_cache follows and the handler returns. *)
IngestStore(w) ==
    /\ wk[w].pc = "ingest_store"
    /\ \E fails \in {FALSE, faults < MaxBackendFaults} :
          IF fails
          THEN /\ faults' = faults + 1
               /\ Raised(w, "Exception")
               /\ UNCHANGED <<pg, faiss, cache>>
          ELSE /\ IF useSupabase
                  THEN /\ pg' = store_document_chunks(pg, wk[w].chunks, wk[w].user)
                       /\ UNCHANGED faiss
                  ELSE /\ faiss' = [faiss EXCEPT ![VectorPath(wk[w].user)] =
                                       [chunks |-> wk[w].chunks]]
                       /\ UNCHANGED pg
               /\ IF wk[w].op = "delete"
                  THEN Invalidate(w, wk[w].user) /\ DoneCleared(w, "ok")
                  ELSE /\ Set(w, [wk[w] EXCEPT
                                     !.pc = IF wk[w].op = "ingest" THEN "ing_mark"
                                            ELSE "ri_mark",
                                     !.chunks = {}, !.size = Cardinality(wk[w].chunks)])
                       /\ UNCHANGED cache
               /\ UNCHANGED faults
    /\ UNCHANGED <<today, dbVars, fsVars, config, ops>>

(* ------------------------- trigger_ingestion -------------------------- *)
PendingOf(t) == {d.id : d \in {x \in DocsOf(t) : x.status = "pending"}}

(* The pending documents are read; with none, the handler answers at      *)
(* once (the 404 it raises is caught by its own last except clause).      *)
IngStart(w, t) ==
    /\ Free(w)
    /\ Started
    /\ IF PendingOf(t) # {}
       THEN Set(w, [IdleW EXCEPT !.pc = "ingest_load", !.op = "ingest", !.user = t,
                                 !.pend = PendingOf(t), !.todo = PendingOf(t)])
       ELSE IF DocsOf(t) = {}
       THEN Set(w, [IdleW EXCEPT !.pc = "ing_fail", !.op = "ingest", !.user = t,
                                 !.err = "HTTPException"])
       ELSE Set(w, [IdleW EXCEPT !.pc = "done", !.op = "ingest", !.user = t,
                                 !.res = "ok"])
    /\ UNCHANGED <<today, dbVars, fsVars, ixVars, config, faults>>

(* One document of the pending list is marked ingested and committed.     *)
(* After the last one: clear_vector_db_cache, then the response is built; *)
(* the persistent result has no "vector_store_path" and the lookup raises *)
(* KeyError.                                                              *)
IngMark(w) ==
    /\ wk[w].pc = "ing_mark"
    /\ wk[w].todo # {}
    /\ LET id == MinOf(wk[w].todo) IN
       /\ documents' = update_status(documents, id, "ingested",
                                     wk[w].size \div Cardinality(wk[w].pend), NULL)
       /\ IF wk[w].todo # {id}
          THEN Set(w, [wk[w] EXCEPT !.todo = @ \ {id}]) /\ UNCHANGED cache
          ELSE /\ Invalidate(w, wk[w].user)
               /\ IF useSupabase
                  THEN Set(w, [wk[w] EXCEPT !.pc = "ing_fail", !.todo = {},
                                            !.how = Cleared(w), !.err = "KeyError"])
                  ELSE DoneCleared(w, "ok")
    /\ UNCHANGED <<today, quotas, nextDocId, fsVars, pg, faiss, config, ops, faults>>

(* except Exception: the documents pending now are read.                  *)
IngFail(w) ==
    /\ wk[w].pc = "ing_fail"
    /\ IF PendingOf(wk[w].user) = {}
       THEN Done(w, "error500")
       ELSE Set(w, [wk[w] EXCEPT !.pc = "ing_err", !.todo = PendingOf(wk[w].user)])
    /\ UNCHANGED <<today, dbVars, fsVars, ixVars, config, ops, faults>>

(* except Exception: one of them is marked error and committed.           *)
IngErr(w) ==
    /\ wk[w].pc = "ing_err"
    /\ wk[w].todo # {}
    /\ LET id == MinOf(wk[w].todo) IN
       /\ documents' = update_status(documents, id, "error", NoCount, wk[w].err)
       /\ IF wk[w].todo = {id}
          THEN Done(w, "error500")
          ELSE Set(w, [wk[w] EXCEPT !.todo = @ \ {id}])
    /\ UNCHANGED <<today, quotas, nextDocId, fsVars, ixVars, config, ops, faults>>

Ingest(w) ==
    \/ \E t \in active : IngStart(w, t)
    \/ IngMark(w) \/ IngFail(w) \/ IngErr(w)

(* ------------------------- reingest_document -------------------------- *)
DocIds == 1..MaxDocId
get_by_id(id) == {d \in documents : d.id = id}

(* get_document: get_by_id, the ownership test, and the row as answer.    *)
GetDocument(w, t, id) ==
    /\ Free(w)
    /\ Started
    /\ LET r == [IdleW EXCEPT !.op = "read", !.user = t, !.doc = id, !.pc = "done"] IN
       IF get_by_id(id) = {}
       THEN Set(w, [r EXCEPT !.res = "error404"])
       ELSE IF \E d \in get_by_id(id) : d.user_id # t
       THEN Set(w, [r EXCEPT !.res = "error403"])
       ELSE Set(w, [r EXCEPT !.res = "ok"])
    /\ UNCHANGED <<today, dbVars, fsVars, ixVars, config, faults>>

(* get_by_id and the ownership test.                                      *)
RiStart(w, t, id) ==
    /\ Free(w)
    /\ Started
    /\ LET r == [IdleW EXCEPT !.op = "reingest", !.user = t, !.doc = id] IN
       IF get_by_id(id) = {}
       THEN Set(w, [r EXCEPT !.pc = "done", !.res = "error404"])
       ELSE IF \E d \in get_by_id(id) : d.user_id # t
       THEN Set(w, [r EXCEPT !.pc = "done", !.res = "error403"])
       ELSE Set(w, [r EXCEPT !.pc = "ri_pending"])
    /\ UNCHANGED <<today, dbVars, fsVars, ixVars, config, faults>>

(* reingest_document writing "ingested" where it writes "pending".        *)
RiPending_Ingested(w) ==
    /\ wk[w].pc = "ri_pending"
    /\ documents' = update_status(documents, wk[w].doc, "ingested", NoCount, NULL)
    /\ Goto(w, "ingest_load")
    /\ UNCHANGED <<today, quotas, nextDocId, fsVars, ixVars, config, ops, faults>>

(* update_status(document_id, status="pending", error_message=None).      *)
RiPending(w) ==
    /\ wk[w].pc = "ri_pending"
    /\ documents' = update_status(documents, wk[w].doc, "pending", NoCount, NULL)
    /\ Goto(w, "ingest_load")
    /\ UNCHANGED <<today, quotas, nextDocId, fsVars, ixVars, config, ops, faults>>

(* update_status(document_id, status="ingested", chunk_count=...).        *)
RiMark(w) ==
    /\ wk[w].pc = "ri_mark"
    /\ documents' = update_status(documents, wk[w].doc, "ingested",
                                  wk[w].size \div wk[w].nproc, NULL)
    /\ Goto(w, "ri_clear")
    /\ UNCHANGED <<today, quotas, nextDocId, fsVars, ixVars, config, ops, faults>>

(* clear_vector_db_cache, then the document is read again for the         *)
(* response; a row deleted meanwhile cannot be serialised.                *)
RiClear(w) ==
    /\ wk[w].pc = "ri_clear"
    /\ Invalidate(w, wk[w].user)
    /\ IF get_by_id(wk[w].doc) = {}
       THEN Set(w, [wk[w] EXCEPT !.pc = "ri_fail", !.how = Cleared(w),
                                 !.err = "ValidationError"])
       ELSE DoneCleared(w, "ok")
    /\ UNCHANGED <<today, dbVars, fsVars, pg, faiss, config, ops, faults>>

(* except Exception: update_status(document_id, status="error", ...).     *)
RiFail(w) ==
    /\ wk[w].pc = "ri_fail"
    /\ documents' = update_status(documents, wk[w].doc, "error", NoCount, wk[w].err)
    /\ Done(w, "error500")
    /\ UNCHANGED <<today, quotas, nextDocId, fsVars, ixVars, config, ops, faults>>

Reingest(w) ==
    \/ \E t \in active, id \in DocIds : RiStart(w, t, id)
    \/ RiPending(w) \/ RiMark(w) \/ RiClear(w) \/ RiFail(w)

(* An ingestion or reingestion request is abandoned between two of its    *)
(* statements (the caller's timeout, the server process stopped): no      *)
(* later statement of the handler runs, its except clauses included, and  *)
(* what its earlier statements committed stays.  History: `how` keeps the *)
(* statement it was abandoned before.                                     *)
Abandon(w) ==
    /\ wk[w].op \in {"ingest", "reingest"}
    /\ ~Free(w)
    /\ Set(w, [DoneRec(w, "abandoned") EXCEPT !.how = wk[w].pc])
    /\ UNCHANGED <<today, dbVars, fsVars, ixVars, config, ops, faults>>

(* -------------------------- delete_document --------------------------- *)
(* delete_document without its ownership test.                            *)
DlStart_AnyOwner(w, t, id) ==
    /\ Free(w)
    /\ Started
    /\ LET r == [IdleW EXCEPT !.op = "delete", !.user = t, !.doc = id] IN
       IF get_by_id(id) = {}
       THEN Set(w, [r EXCEPT !.pc = "done", !.res = "error404"])
       ELSE LET d == CHOOSE x \in get_by_id(id) : TRUE IN
            Set(w, [r EXCEPT !.pc = "dl_unlink", !.size = d.file_size,
                             !.seen = d.path])
    /\ UNCHANGED <<today, dbVars, fsVars, ixVars, config, faults>>

(* get_by_id and the ownership test; file_size and file_path are read.    *)
DlStart(w, t, id) ==
    /\ Free(w)
    /\ Started
    /\ LET r == [IdleW EXCEPT !.op = "delete", !.user = t, !.doc = id] IN
       IF get_by_id(id) = {}
       THEN Set(w, [r EXCEPT !.pc = "done", !.res = "error404"])
       ELSE LET d == CHOOSE x \in get_by_id(id) : TRUE IN
            IF d.user_id # t
            THEN Set(w, [r EXCEPT !.pc = "done", !.res = "error403"])
            ELSE Set(w, [r EXCEPT !.pc = "dl_unlink", !.size = d.file_size,
                                  !.seen = d.path])
    /\ UNCHANGED <<today, dbVars, fsVars, ixVars, config, faults>>

(* The stored file is removed when it exists.                             *)
DlUnlink(w) ==
    /\ wk[w].pc = "dl_unlink"
    /\ fs' = RemoveFile(fs, wk[w].seen)
    /\ Set(w, [wk[w] EXCEPT !.pc = "dl_row", !.seen = NoRec])
    /\ UNCHANGED <<today, dbVars, dirs, ixVars, config, ops, faults>>

(* doc_repo.delete(document_id).                                          *)
DlRow(w) ==
    /\ wk[w].pc = "dl_row"
    /\ documents' = documents \ get_by_id(wk[w].doc)
    /\ Goto(w, "dl_dec_select")
    /\ UNCHANGED <<today, quotas, nextDocId, fsVars, ixVars, config, ops, faults>>

(* decrement_document_count: get_or_create_quota.                         *)
DlDecSelect(w) ==
    /\ wk[w].pc = "dl_dec_select"
    /\ QuotaSelect(w, "dl_dec_commit")
    /\ UNCHANGED <<today, dbVars, fsVars, ixVars, config, ops, faults>>

(* decrement_document_count without the max(0, ...) floor.                *)
decrement_document_count_NoFloor(q, file_size) ==
    [q EXCEPT !.document_count = q.document_count - 1,
              !.total_storage_bytes = q.total_storage_bytes - file_size]

(* decrement_document_count on the loaded row `q`.                        *)
decrement_document_count(q, file_size) ==
    [q EXCEPT !.document_count = Max(0, q.document_count - 1),
              !.total_storage_bytes = Max(0, q.total_storage_bytes - file_size)]

DlDecCommit(w) ==
    /\ wk[w].pc = "dl_dec_commit"
    /\ quotas' = [quotas EXCEPT ![wk[w].user] =
                     Flush(@, wk[w].q, decrement_document_count(wk[w].q, wk[w].size))]
    /\ Set(w, [wk[w] EXCEPT !.pc = "dl_remaining", !.q = NoRec])
    /\ UNCHANGED <<today, documents, nextDocId, fsVars, ixVars, config, ops, faults>>

(* remaining_docs = doc_repo.get_by_user(user_id).                        *)
DlRemaining(w) ==
    /\ wk[w].pc = "dl_remaining"
    /\ Goto(w, IF DocsOf(wk[w].user) # {} THEN "ingest_load" ELSE "dl_rmtree")
    /\ UNCHANGED <<today, dbVars, fsVars, ixVars, config, ops, faults>>

(* No document left: Path("vector_store/<user_id>") is removed when it    *)
(* exists, which it can only where VECTOR_STORE_BASE is that relative     *)
(* directory; then clear_vector_db_cache.                                 *)
DlRmtree(w) ==
    /\ wk[w].pc = "dl_rmtree"
    /\ faiss' = IF railway THEN faiss
                ELSE [faiss EXCEPT ![VectorPath(wk[w].user)] = NoRec]
    /\ Invalidate(w, wk[w].user)
    /\ DoneCleared(w, "ok")
    /\ UNCHANGED <<today, dbVars, fsVars, pg, config, ops, faults>>

Delete(w) ==
    \/ \E t \in active, id \in DocIds : DlStart(w, t, id)
    \/ DlUnlink(w) \/ DlRow(w) \/ DlDecSelect(w) \/ DlDecCommit(w) \/ DlRemaining(w)
    \/ DlRmtree(w)

(* ------------------------------- chat --------------------------------- *)
Stale(q, day) == q.last_query_reset < day

(* reset_daily_queries_if_needed on the loaded row.                       *)
reset_daily_queries(q, day) ==
    [q EXCEPT !.queries_today = 0, !.last_query_reset = day]

ChStart(w, t) ==
    /\ Free(w)
    /\ Started
    /\ Set(w, [IdleW EXCEPT !.pc = "q_select", !.op = "chat", !.user = t,
                             !.began = today])
    /\ UNCHANGED <<today, dbVars, fsVars, ixVars, config, faults>>

(* check_query_quota: get_or_create_quota, then the reset test and, when  *)
(* no reset is due, the comparison with the tier's limit.                 *)
QSelect(w) ==
    /\ wk[w].pc = "q_select"
    /\ LET t == wk[w].user IN
       IF quotas[t] = NoRec
       THEN Set(w, [wk[w] EXCEPT !.pc = "goc_insert", !.back = "q_select"])
       ELSE IF Stale(quotas[t], today)
       THEN Set(w, [wk[w] EXCEPT !.pc = "q_reset", !.q = quotas[t], !.day = today])
       ELSE IF check_query_limit(quotas[t]) = "ok"
       THEN Goto(w, "ch_answer")
       ELSE Done(w, "QuotaExceeded")
    /\ UNCHANGED <<today, dbVars, fsVars, ixVars, config, ops, faults>>

(* reset_daily_queries_if_needed: the reset is committed.                 *)
QReset(w) ==
    /\ wk[w].pc = "q_reset"
    /\ quotas' = [quotas EXCEPT ![wk[w].user] =
                     Flush(@, wk[w].q, reset_daily_queries(wk[w].q, wk[w].day))]
    /\ Set(w, [wk[w] EXCEPT !.pc = "q_refresh", !.q = NoRec])
    /\ UNCHANGED <<today, documents, nextDocId, fsVars, ixVars, config, ops, faults>>

(* check_query_quota after a reset: the expired row is read again.        *)
QRefresh(w) ==
    /\ wk[w].pc = "q_refresh"
    /\ IF check_query_limit(quotas[wk[w].user]) = "ok"
       THEN Goto(w, "ch_answer")
       ELSE Done(w, "QuotaExceeded")
    /\ UNCHANGED <<today, dbVars, fsVars, ixVars, config, ops, faults>>

(* generate_answer: retrieve_context, then the model's answer; a failure  *)
(* of the model leaves the query uncounted.                               *)
ChAnswer(w) ==
    /\ wk[w].pc = "ch_answer"
    /\ \E pgFails \in {FALSE, useSupabase /\ faults < MaxBackendFaults},
          llmFails \in {FALSE, faults < MaxBackendFaults} :
          \E o \in retrieve_context(w, wk[w].user, pgFails) :
             /\ ~(pgFails /\ llmFails)
             /\ cache' = [cache EXCEPT ![w] = o.cache]
             /\ faults' = IF pgFails \/ llmFails THEN faults + 1 ELSE faults
             /\ IF llmFails
                THEN Set(w, [IdleW EXCEPT !.pc = "done", !.op = "chat",
                                !.user = wk[w].user, !.began = wk[w].began,
                                !.chunks = o.ctx, !.how = o.how,
                                !.res = "error500"])
                ELSE Set(w, [wk[w] EXCEPT !.pc = "qi_select", !.chunks = o.ctx,
                                !.how = o.how])
    /\ UNCHANGED <<today, dbVars, fsVars, pg, faiss, config, ops>>

(* increment_query_count: get_or_create_quota and the reset test.         *)
QiSelect(w) ==
    /\ wk[w].pc = "qi_select"
    /\ LET t == wk[w].user IN
       IF quotas[t] = NoRec
       THEN Set(w, [wk[w] EXCEPT !.pc = "goc_insert", !.back = "qi_select"])
       ELSE IF Stale(quotas[t], today)
       THEN Set(w, [wk[w] EXCEPT !.pc = "qi_reset", !.q = quotas[t], !.day = today])
       ELSE Set(w, [wk[w] EXCEPT !.pc = "qi_commit", !.q = quotas[t]])
    /\ UNCHANGED <<today, dbVars, fsVars, ixVars, config, ops, faults>>

QiReset(w) ==
    /\ wk[w].pc = "qi_reset"
    /\ quotas' = [quotas EXCEPT ![wk[w].user] =
                     Flush(@, wk[w].q, reset_daily_queries(wk[w].q, wk[w].day))]
    /\ Set(w, [wk[w] EXCEPT !.pc = "qi_refresh", !.q = NoRec])
    /\ UNCHANGED <<today, documents, nextDocId, fsVars, ixVars, config, ops, faults>>

(* increment_query_count after a reset: the expired row is read again.    *)
QiRefresh(w) ==
    /\ wk[w].pc = "qi_refresh"
    /\ Set(w, [wk[w] EXCEPT !.pc = "qi_commit", !.q = quotas[wk[w].user]])
    /\ UNCHANGED <<today, dbVars, fsVars, ixVars, config, ops, faults>>

(* increment_query_count: queries_today += 1 is committed.                *)
QiCommit(w) ==
    /\ wk[w].pc = "qi_commit"
    /\ quotas' = [quotas EXCEPT ![wk[w].user] =
                     Flush(@, wk[w].q,
                           [wk[w].q EXCEPT !.queries_today = wk[w].q.queries_today + 1])]
    /\ Done(w, "ok")
    /\ UNCHANGED <<today, documents, nextDocId, fsVars, ixVars, config, ops, faults>>

Chat(w) ==
    \/ \E t \in active : ChStart(w, t)
    \/ QSelect(w) \/ QReset(w) \/ QRefresh(w) \/ ChAnswer(w)
    \/ QiSelect(w) \/ QiReset(w) \/ QiRefresh(w) \/ QiCommit(w)

(* Midnight. *)
DayAdvance ==
    /\ today < MaxDay
    /\ today' = today + 1
    /\ UNCHANGED <<dbVars, fsVars, ixVars, wk, config, ops, faults>>

(* ------------------------- initial states ----------------------------- *)
EmptyCache == [key \in Tenants \cup {"global"} |-> NoRec]

InitCommon ==
    /\ today = 0
    /\ quotas = [t \in Tenants |-> NoRec]
    /\ documents = {}
    /\ nextDocId = 1
    /\ dirs = {}
    /\ fs = {}
    /\ pg = <<>>
    /\ faiss = [t \in Tenants |-> NoRec]
    /\ cache = [w \in Workers |-> EmptyCache]
    /\ wk = [w \in Workers |-> IdleW]
    /\ ops = 0
    /\ faults = 0

(* Uploads and ledger repair, on a fresh deployment.                      *)
InitUpload ==
    /\ InitCommon
    /\ useSupabase = FALSE
    /\ railway = FALSE
    /\ menu = {NotesTxt, LongTxt}
    /\ active = Tenants

NextUpload ==
    \E w \in Workers : Upload(w) \/ Recalculate(w) \/ GocInsert(w)

SpecUpload == InitUpload /\ [][NextUpload]_vars

(* Uploads of one tenant through two workers: the validation pipeline.    *)
InitScreen ==
    /\ InitCommon
    /\ useSupabase = FALSE
    /\ railway = FALSE
    /\ menu = {ReportPdf, ExePdf, ScriptPdf, MemoDocx, BombDocx, SfxBombDocx}
    /\ active = {"t1"}

NextScreen ==
    \E w \in Workers : Upload(w) \/ GocInsert(w)

SpecScreen == InitScreen /\ [][NextScreen]_vars

(* Chat requests across midnight.                                         *)
InitQuery ==
    /\ InitCommon
    /\ useSupabase = FALSE
    /\ railway = FALSE
    /\ menu = {}
    /\ active = Tenants

NextQuery ==
    \/ \E w \in Workers : Chat(w) \/ GocInsert(w)
    \/ DayAdvance

SpecQuery == InitQuery /\ [][NextQuery]_vars

(* Ingestion, reingestion, deletion and chat over documents that were     *)
(* uploaded before: each tenant has one stored text file, its pending     *)
(* Document and its quota row.                                            *)
Stored(t, file) == [path |-> FilePath(t, file, 0, FALSE), content |-> file.content]

InitIndex ==
    /\ today = 0
    /\ useSupabase \in BOOLEAN
    /\ railway \in BOOLEAN
    /\ menu = {}
    /\ active = Tenants
    /\ dirs = Tenants
    /\ fs = {Stored("t1", NotesTxt), Stored("t2", LongTxt)}
    /\ documents = {NewDocument(1, "t1", FilePath("t1", NotesTxt, 0, FALSE), 1),
                    NewDocument(2, "t2", FilePath("t2", LongTxt, 0, FALSE), 2)}
    /\ nextDocId = 3
    /\ quotas = [t \in Tenants |->
                    increment_document_count(NewQuota(0), IF t = "t1" THEN 1 ELSE 2)]
    /\ pg = <<>>
    /\ faiss = [t \in Tenants |-> NoRec]
    /\ cache = [w \in Workers |-> EmptyCache]
    /\ wk = [w \in Workers |-> IdleW]
    /\ ops = 0
    /\ faults = 0

NextIndex ==
    \E w \in Workers :
        \/ Ingest(w) \/ Reingest(w) \/ Delete(w)
        \/ IngestLoad(w) \/ IngestStore(w)
        \/ \E t \in active : RetrieveContext(w, t)
        \/ \E t \in active, id \in DocIds : GetDocument(w, t, id)
        \/ \E t \in active : CheckStatus(w, t)

SpecIndex == InitIndex /\ [][NextIndex]_vars

(* Ingestion and reingestion over documents that were uploaded before:    *)
(* one tenant's only file is a PDF no loader can read, the other's is a   *)
(* text file.                                                             *)
InitLifecycle ==
    /\ today = 0
    /\ useSupabase \in BOOLEAN
    /\ railway = FALSE
    /\ menu = {}
    /\ active = Tenants
    /\ dirs = Tenants
    /\ fs = {Stored("t1", BrokenPdf), Stored("t2", NotesTxt)}
    /\ documents = {NewDocument(1, "t1", FilePath("t1", BrokenPdf, 0, FALSE), 1),
                    NewDocument(2, "t2", FilePath("t2", NotesTxt, 0, FALSE), 1)}
    /\ nextDocId = 3
    /\ quotas = [t \in Tenants |-> increment_document_count(NewQuota(0), 1)]
    /\ pg = <<>>
    /\ faiss = [t \in Tenants |-> NoRec]
    /\ cache = [w \in Workers |-> EmptyCache]
    /\ wk = [w \in Workers |-> IdleW]
    /\ ops = 0
    /\ faults = 0

NextLifecycle ==
    \E w \in Workers :
        Ingest(w) \/ Reingest(w) \/ IngestLoad(w) \/ IngestStore(w) \/ Abandon(w)

SpecLifecycle == InitLifecycle /\ [][NextLifecycle]_vars

(* Ingestion and reingestion for a tenant who uploaded two files, both    *)
(* pending: a PDF no loader can read and a text file.                     *)
InitMixed ==
    /\ today = 0
    /\ useSupabase \in BOOLEAN
    /\ railway = FALSE
    /\ menu = {}
    /\ active = {"t1"}
    /\ dirs = {"t1"}
    /\ fs = {Stored("t1", BrokenPdf), Stored("t1", NotesTxt)}
    /\ documents = {NewDocument(1, "t1", FilePath("t1", BrokenPdf, 0, FALSE), 1),
                    NewDocument(2, "t1", FilePath("t1", NotesTxt, 0, FALSE), 1)}
    /\ nextDocId = 3
    /\ quotas = [t \in Tenants |->
                    IF t = "t1"
                    THEN increment_document_count(
                             increment_document_count(NewQuota(0), 1), 1)
                    ELSE NoRec]
    /\ pg = <<>>
    /\ faiss = [t \in Tenants |-> NoRec]
    /\ cache = [w \in Workers |-> EmptyCache]
    /\ wk = [w \in Workers |-> IdleW]
    /\ ops = 0
    /\ faults = 0

SpecMixed == InitMixed /\ [][NextLifecycle]_vars

(* Deletion, reingestion and retrieval for a tenant whose two uploaded    *)
(* files were ingested together into a FAISS index: both Documents are    *)
(* ingested and the index on disk holds the chunks of both files.         *)
IngestedTogether(files, t) == UNION {ChunksOf(e, t) : e \in files}

InitRebuild ==
    /\ today = 0
    /\ useSupabase = FALSE
    /\ railway \in BOOLEAN
    /\ menu = {}
    /\ active = {"t1"}
    /\ dirs = {"t1"}
    /\ fs = {Stored("t1", NotesTxt), Stored("t1", ReportPdf)}
    /\ documents =
          update_status(
              update_status({NewDocument(1, "t1", FilePath("t1", NotesTxt, 0, FALSE), 1),
                             NewDocument(2, "t1", FilePath("t1", ReportPdf, 0, FALSE), 1)},
                            1, "ingested", 1, NULL),
              2, "ingested", 1, NULL)
    /\ nextDocId = 3
    /\ quotas = [t \in Tenants |->
                    IF t = "t1"
                    THEN increment_document_count(
                             increment_document_count(NewQuota(0), 1), 1)
                    ELSE NoRec]
    /\ pg = <<>>
    /\ faiss = [t \in Tenants |->
                   IF t = "t1"
                   THEN [chunks |-> IngestedTogether(fs, "t1")]
                   ELSE NoRec]
    /\ cache = [w \in Workers |-> EmptyCache]
    /\ wk = [w \in Workers |-> IdleW]
    /\ ops = 0
    /\ faults = 0

NextRebuild ==
    \E w \in Workers :
        \/ Delete(w) \/ Reingest(w)
        \/ IngestLoad(w) \/ IngestStore(w)
        \/ \E t \in active : RetrieveContext(w, t)

SpecRebuild == InitRebuild /\ [][NextRebuild]_vars

(* Uploads of a tenant whose quota row is in any state the ledger can    *)
(* hold: an operator-assigned tier, counters anywhere up to the largest   *)
(* finite limits, or no row yet.                                          *)
Tiers == {"free", "pro", "enterprise"}

QuotaRows ==
    {[tier |-> tier, document_count |-> n, total_storage_bytes |-> b,
      queries_today |-> 0, last_query_reset |-> 0] :
        tier \in Tiers, n \in 0..ProMaxDocuments, b \in 0..ProMaxStorage}

InitQuotaCheck ==
    /\ today = 0
    /\ quotas \in {[t \in Tenants |-> IF t = "t1" THEN q ELSE NoRec] :
                      q \in QuotaRows \cup {NoRec}}
    /\ documents = {}
    /\ nextDocId = 1
    /\ dirs = {}
    /\ fs = {}
    /\ pg = <<>>
    /\ faiss = [t \in Tenants |-> NoRec]
    /\ cache = [w \in Workers |-> EmptyCache]
    /\ wk = [w \in Workers |-> IdleW]
    /\ ops = 0
    /\ faults = 0
    /\ useSupabase = FALSE
    /\ railway = FALSE
    /\ menu = {NotesTxt, LongTxt}
    /\ active = {"t1"}

NextQuotaCheck ==
    \E w \in Workers : Upload(w) \/ GocInsert(w)

SpecQuotaCheck == InitQuotaCheck /\ [][NextQuotaCheck]_vars

(* Multi-file uploads of a free-tier tenant who has one document stored   *)
(* already, so that one more fits under max_documents.                    *)
InitBatch ==
    /\ today = 0
    /\ useSupabase = FALSE
    /\ railway = FALSE
    /\ menu = {NotesTxt, ExePdf, ToolExe}
    /\ active = {"t1"}
    /\ dirs = {"t1"}
    /\ fs = {Stored("t1", LongTxt)}
    /\ documents = {NewDocument(1, "t1", FilePath("t1", LongTxt, 0, FALSE), 2)}
    /\ nextDocId = 2
    /\ quotas = [t \in Tenants |->
                    IF t = "t1" THEN increment_document_count(NewQuota(0), 2)
                    ELSE NoRec]
    /\ pg = <<>>
    /\ faiss = [t \in Tenants |-> NoRec]
    /\ cache = [w \in Workers |-> EmptyCache]
    /\ wk = [w \in Workers |-> IdleW]
    /\ ops = 0
    /\ faults = 0

NextBatch ==
    \E w \in Workers : UploadBatch(w)

SpecBatch == InitBatch /\ [][NextBatch]_vars

(* validate_file_comprehensive called on any file: one file is on disk,   *)
(* under its declared name or under its staged name, with any combination *)
(* of size, leading signature, archive directory and PDF markers; the     *)
(* function is called on its path or on a path where no file is.          *)
ValidatorFiles ==
    {UploadFile("file", ext, Content(size, magic, isZip, zipTotal, markers, TRUE)) :
        ext \in {".pdf", ".docx", ".txt", ".exe", ".zip"},
        size \in {1, MAX_FILE_SIZE + 1}, magic \in Magics, isZip \in BOOLEAN,
        zipTotal \in {2, MaxRatio + 1, MAX_EXTRACTED_SIZE + 1}, markers \in BOOLEAN}

InitValidate ==
    /\ today = 0
    /\ useSupabase = FALSE
    /\ railway = FALSE
    /\ menu = {}
    /\ active = {"t1"}
    /\ dirs = {"t1"}
    /\ \E f \in ValidatorFiles, tmp \in BOOLEAN :
          fs \in {{}, {[path |-> FilePath("t1", f, 0, tmp), content |-> f.content]}}
    /\ documents = {}
    /\ nextDocId = 1
    /\ quotas = [t \in Tenants |-> NoRec]
    /\ pg = <<>>
    /\ faiss = [t \in Tenants |-> NoRec]
    /\ cache = [w \in Workers |-> EmptyCache]
    /\ wk = [w \in Workers |-> IdleW]
    /\ ops = 0
    /\ faults = 0

NextValidate ==
    \E w \in Workers :
        \/ \E path \in {e.path : e \in fs} \cup {FilePath("t1", NotesTxt, 0, FALSE)} :
              VdStart(w, path)
        \/ VdCheck(w)

SpecValidate == InitValidate /\ [][NextValidate]_vars

(* Retrieval and reingestion for a tenant whose identifier is "global",   *)
(* on a deployment where the module's command-line entry point            *)
(* (ingest_docs() without a user_id) has built the tenant-less global     *)
(* store from the upload directory; retrieve_context is called for the    *)
(* tenant and without a user_id.                                          *)
InitGlobal ==
    /\ today = 0
    /\ useSupabase = FALSE
    /\ railway = FALSE
    /\ menu = {}
    /\ active = {"global"}
    /\ dirs = {"global"}
    /\ fs = {Stored("global", NotesTxt)}
    /\ documents = update_status({NewDocument(1, "global",
                                              FilePath("global", NotesTxt, 0, FALSE), 1)},
                                 1, "ingested", 1, NULL)
    /\ nextDocId = 2
    /\ quotas = [t \in {"global"} |-> increment_document_count(NewQuota(0), 1)]
    /\ pg = <<>>
    /\ faiss = [p \in {VectorPath("global"), VectorPath(NULL)} |->
                   [chunks |-> IngestedTogether(fs, p)]]
    /\ cache = [w \in Workers |-> EmptyCache]
    /\ wk = [w \in Workers |-> IdleW]
    /\ ops = 0
    /\ faults = 0

NextGlobal ==
    \E w \in Workers :
        \/ Reingest(w) \/ IngestLoad(w) \/ IngestStore(w)
        \/ \E user_id \in active \cup {NULL} : RetrieveContext(w, user_id)

SpecGlobal == InitGlobal /\ [][NextGlobal]_vars

(* Ingestion and retrieval of two tenants over a backend whose tenant     *)
(* scoping can be broken.                                                 *)
NextFaulty ==
    \E w \in Workers :
        \/ Ingest(w) \/ IngestLoad(w) \/ IngestStore(w)
        \/ \E t \in active : RetrieveContext(w, t)
        \/ \E t \in active : RetrieveUnscoped(w, t)

SpecFaulty == InitIndex /\ [][NextFaulty]_vars

(* ------------------------------ claims -------------------------------- *)

(* C1: concurrent uploads of one tenant never admit more documents (or    *)
(* more bytes) than the tenant's tier allows: of N uploads racing for M   *)
(* remaining places at most M are accepted.                               *)
C1_NeverMoreThanLimit ==
    \A t \in Tenants :
        quotas[t] # NoRec =>
            LET limits == get_tier_limits(quotas[t].tier) IN
            /\ limits.max_documents > 0 =>
                   Cardinality(DocsOf(t)) <= limits.max_documents
            /\ limits.max_storage_bytes > 0 =>
                   SumSizes(DocsOf(t)) <= limits.max_storage_bytes

(* C6: when recalculate(T) commits, T's document_count is the number of   *)
(* T's Document rows and total_storage_bytes the sum of their sizes, also *)
(* while uploads for T are running.                                       *)
C6_RecalculateExact ==
    [][\A w \in Workers :
          (wk[w].pc = "rc_commit" /\ wk'[w].pc = "done") =>
              LET t == wk[w].user
                  rows == {d \in documents' : d.user_id = t} IN
              /\ quotas'[t].document_count = Cardinality(rows)
              /\ quotas'[t].total_storage_bytes = SumSizes(rows)]_vars

(* Worker w's upload has been through validate_file_comprehensive.       *)
Validated(w) == wk[w].op = "upload" /\ wk[w].verdict # NULL

(* C8: an upload named report.pdf whose content begins with the PE        *)
(* signature 'MZ' is rejected by validation with the executable-signature *)
(* reason; the request creates no Document and never reaches the quota    *)
(* increment.                                                             *)
C8_ExeAsPdfRejected ==
    \A w \in Workers :
        (Validated(w) /\ wk[w].file.ext = ".pdf" /\ wk[w].file.content.magic = "MZ") =>
            /\ wk[w].verdict = "exec"
            /\ wk[w].pc \in {"up_unlink", "done"}
            /\ wk[w].pc = "done" => wk[w].res = "rejected400"
            /\ wk[w].doc = 0

(* C9: an uploaded .docx whose archive declares more than the ceiling of   *)
(* uncompressed bytes is rejected with the decompression-bomb reason.     *)
C9_BombDocxRejected ==
    \A w \in Workers :
        (Validated(w) /\ wk[w].file.ext = ".docx" /\ wk[w].file.content.isZip
            /\ wk[w].file.content.zipTotal > MAX_EXTRACTED_SIZE) =>
                wk[w].verdict = "bomb_size"

(* C5: once the date has advanced, queries_today is reset exactly once    *)
(* for the day: no reset is applied to a tenant's row after a query that  *)
(* the tenant sent on that day has been counted in it.                    *)
CountedOn(t, day) ==
    \E v \in Workers :
        /\ wk[v].pc = "done" /\ wk[v].op = "chat" /\ wk[v].res = "ok"
        /\ wk[v].user = t /\ wk[v].began = day

C5_ResetOnce ==
    [][\A w \in Workers :
          (wk[w].pc \in {"q_reset", "qi_reset"} /\ wk'[w].pc # wk[w].pc) =>
              LET t == wk[w].user IN
              ~ /\ CountedOn(t, wk[w].day)
                /\ quotas[t].last_query_reset = wk[w].day
                /\ quotas[t].queries_today > 0
                /\ quotas'[t].queries_today = 0]_vars

(* C2: every chunk in the context a retrieval returns to a tenant was cut *)
(* from a file of that tenant's own directory by an ingestion run for     *)
(* that tenant, on either backend and whatever other tenants have stored. *)
C2_OwnChunksOnly ==
    \A w \in Workers :
        wk[w].op \in {"retrieve", "chat"} =>
            \A c \in wk[w].chunks : c.src.dir = wk[w].user /\ c.tag = wk[w].user

OtherTenantStored(t) ==
    \/ \E r \in PgRows : r.user_id # t
    \/ \E u \in Tenants \ {t} : faiss[u] # NoRec

C2_Witness ==
    \E w \in Workers :
        /\ wk[w].pc = "done" /\ wk[w].op = "retrieve" /\ wk[w].chunks # {}
        /\ OtherTenantStored(wk[w].user)

(* C3: a retrieval the FAISS branch serves never uses a handle its worker *)
(* loaded before an invalidation of that tenant, and the retrieval that   *)
(* follows the invalidation on that worker loads the index from storage   *)
(* (or finds none there).                                                 *)
Retrieves(w) ==
    /\ wk'[w] # wk[w]
    /\ \/ Free(w) /\ wk'[w].op = "retrieve"
       \/ wk[w].pc = "ch_answer"

JustCleared(w, t) ==
    wk[w].pc = "done" /\ wk[w].how \in {"cleared", "dropped"} /\ wk[w].user = t

C4_NothingLeft ==
    [][\A w \in Workers :
          (wk[w].pc = "dl_rmtree" /\ wk'[w].pc = "done") =>
              LET t == wk[w].user IN
              /\ \A v \in Workers : cache'[v][t] = NoRec
              /\ faiss'[VectorPath(t)] = NoRec
              /\ {r \in DOMAIN pg' : r.user_id = t} = {}]_vars

Row(docs, id) == CHOOSE d \in docs : d.id = id

(* C7: reingesting a Document whose status is error sets its              *)
(* error_message to null, and when the reingestion returns successfully   *)
(* the Document is ingested with a chunk_count and a null error_message.  *)
C7_ReingestClearsError ==
    [][\A w \in Workers :
          LET id == wk[w].doc IN
          /\ (/\ wk[w].pc = "ri_pending" /\ wk'[w].pc # "ri_pending"
              /\ get_by_id(id) # {} /\ Row(documents, id).status = "error")
                 => Row(documents', id).error_message = NULL
          /\ (wk[w].pc = "ri_clear" /\ wk'[w].pc = "done" /\ wk'[w].res = "ok")
                 => /\ Row(documents', id).status = "ingested"
                    /\ Row(documents', id).chunk_count # NoCount
                    /\ Row(documents', id).error_message = NULL]_vars

(* C10: when trigger_ingestion or reingest_document answers with a        *)
(* failure, every Document the run was ingesting has status error and an  *)
(* error_message; none of them is left pending.                           *)
Failures == {"error400", "error404", "error500"}

C10_FailureMarksError ==
    [][\A w \in Workers :
          (/\ wk[w].op \in {"ingest", "reingest"} /\ ~Free(w)
           /\ wk'[w].pc = "done" /\ wk'[w].res \in Failures) =>
              LET ids == IF wk[w].op = "ingest" THEN wk[w].pend ELSE {wk[w].doc} IN
              \A d \in documents' :
                  d.id \in ids => d.status = "error" /\ d.error_message # NULL]_vars

(* C11: every change of a Document's status is pending -> ingested,       *)
(* pending -> error, or a move to pending made by reingest_document; in   *)
(* particular no Document goes from error to ingested without being       *)
(* pending in between, and a new Document starts as pending.              *)
LegalStatusChange(from, to, byReingest) ==
    \/ from = "pending" /\ to \in {"ingested", "error"}
    \/ to = "pending" /\ byReingest

C11_StatusMachine ==
    [][/\ \A d \in documents, e \in documents' :
             (d.id = e.id /\ d.status # e.status) =>
                 LegalStatusChange(d.status, e.status,
                                   \E w \in Workers : wk[w].pc = "ri_pending"
                                                      /\ wk'[w].pc # "ri_pending")
       /\ \A e \in documents' :
             (\A d \in documents : d.id # e.id) => e.status = "pending"]_vars

(* C12: the check and the increment of the daily query counter are one    *)
(* atomic unit: the queries counted for a tenant in one day, each one a   *)
(* chat request that was served, never exceed the tier's                  *)
(* max_queries_per_day, also when chat requests of the tenant run         *)
(* concurrently with the counter one below the limit.                     *)
C12_QueriesWithinLimit ==
    \A t \in Tenants :
        quotas[t] # NoRec =>
            LET limits == get_tier_limits(quotas[t].tier) IN
            limits.max_queries_per_day > 0 =>
                quotas[t].queries_today <= limits.max_queries_per_day

(* C13: an ingest, reingest or delete that changed its tenant's document  *)
(* set (it stored a new index or removed a Document) has dropped the      *)
(* tenant's entry from the cache of the process that handled it when it   *)
(* returns, on its success path and on its handled-failure paths.         *)
ChangedDocumentSet(w) ==
    \/ wk[w].op = "delete" /\ wk[w].pc \in {"ingest_load", "ingest_store", "dl_rmtree"}
    \/ wk[w].op = "ingest" /\ wk[w].pc = "ing_mark"
    \/ wk[w].op = "reingest" /\ wk[w].pc = "ri_clear"

C13_InvalidatedOnReturn ==
    [][\A w \in Workers :
          (ChangedDocumentSet(w) /\ wk'[w].pc = "done") =>
              cache'[w][wk[w].user] = NoRec]_vars

(* C14: a successful delete of Document d of tenant T removes d's row,    *)
(* and the ledger update it commits lowers T's document_count by 1 and    *)
(* total_storage_bytes by d's size, each floored at 0, and leaves every   *)
(* other tenant's quota row as it was.                                    *)
C14_DeleteFreesQuota ==
    [][\A w \in Workers :
          LET t == wk[w].user IN
          /\ (wk[w].pc = "dl_row" /\ wk'[w].pc # "dl_row")
                => \A d \in documents' : d.id # wk[w].doc
          /\ (wk[w].pc = "dl_dec_commit" /\ wk'[w].pc # "dl_dec_commit")
                => /\ quotas'[t].document_count =
                          Max(0, quotas[t].document_count - 1)
                   /\ quotas'[t].total_storage_bytes =
                          Max(0, quotas[t].total_storage_bytes - wk[w].size)
                   /\ \A u \in Tenants \ {t} : quotas'[u] = quotas[u]]_vars

(* C15: with the persistent backend selected, a retrieval whose pgvector  *)
(* search finds no match, or raises, is served by the FAISS branch: no    *)
(* retrieval returns from the pgvector branch with an empty context.      *)
C15_FallbackOnZeroOrError ==
    \A w \in Workers :
        (wk[w].op \in {"retrieve", "chat"} /\ wk[w].how = "pg") => wk[w].chunks # {}

(* C16: check_document_quota refuses with QuotaExceeded exactly when the  *)
(* tier's max_documents is positive and document_count has reached it, or *)
(* the tier's max_storage_bytes is positive and total_storage_bytes plus  *)
(* the incoming size is above it; a negative limit never refuses, and the *)
(* check changes no counter.                                              *)
C16_DocumentQuotaCheck ==
    [][\A w \in Workers :
          (wk[w].pc = "up_quota" /\ wk'[w].pc \in {"up_name", "done"}) =>
              LET q == quotas[wk[w].user]
                  lim == TIER_LIMITS[q.tier]
                  full == lim.max_documents > 0
                          /\ q.document_count >= lim.max_documents
                  over == lim.max_storage_bytes > 0
                          /\ q.total_storage_bytes + wk[w].size > lim.max_storage_bytes
              IN /\ (wk'[w].pc = "done" /\ wk'[w].res = "QuotaExceeded")
                       <=> (full \/ over)
                 /\ wk'[w].pc = "up_name" <=> ~(full \/ over)
                 /\ quotas' = quotas]_vars

C16_Witness ==
    \E w \in Workers :
        /\ wk[w].op = "upload" /\ wk[w].pc = "done" /\ wk[w].res = "QuotaExceeded"
        /\ quotas[wk[w].user].document_count =
               get_tier_limits(quotas[wk[w].user].tier).max_documents

(* C17: check_query_quota resets a stale counter first and then refuses   *)
(* exactly when the tier's daily limit is positive and queries_today has  *)
(* reached it, and increment_query_count applies the same reset first: the *)
(* row that is compared is not stale for the day the check read, and no   *)
(* count of queries of an earlier day is incremented and written to the   *)
(* row of a later day.                                                    *)
C17_NoStaleCounter ==
    [][\A w \in Workers :
          LET t == wk[w].user IN
          /\ (wk[w].pc \in {"q_select", "q_refresh"}
                 /\ wk'[w].pc \in {"ch_answer", "done"}) =>
                 LET lim == TIER_LIMITS[quotas[t].tier].max_queries_per_day IN
                 /\ ~Stale(quotas[t], IF wk[w].pc = "q_select" THEN today
                                      ELSE wk[w].day)
                 /\ (wk'[w].pc = "done" /\ wk'[w].res = "QuotaExceeded")
                       <=> (lim > 0 /\ quotas[t].queries_today >= lim)
          /\ (wk[w].pc = "qi_commit" /\ wk'[w].pc = "done") =>
                 ~ /\ Stale(wk[w].q, quotas[t].last_query_reset)
                   /\ wk[w].q.queries_today > 0]_vars

(* C18: in every reachable state document_count, total_storage_bytes and  *)
(* queries_today of every tenant are >= 0.                                *)
C18_CountersNonNegative ==
    \A t \in Tenants :
        quotas[t] # NoRec =>
            /\ quotas[t].document_count >= 0
            /\ quotas[t].total_storage_bytes >= 0
            /\ quotas[t].queries_today >= 0

(* Worker w's delete_document has committed its decrement.                *)
Decremented(w) ==
    /\ wk[w].op = "delete"
    /\ \/ wk[w].pc \in {"dl_remaining", "dl_rmtree", "ingest_load", "ingest_store"}
       \/ wk[w].pc = "done" /\ wk[w].res = "ok"

(* More decrements were committed than the ledger had documents: the same *)
(* Document was deleted by two requests after the tenant's other one.     *)
C18_Witness ==
    \E w \in Workers, v \in Workers :
        /\ w # v /\ Decremented(w) /\ Decremented(v)
        /\ wk[w].user = wk[v].user /\ wk[w].doc = wk[v].doc
        /\ DocsOf(wk[w].user) = {}
        /\ quotas[wk[w].user].document_count = 0
        /\ quotas[wk[w].user].total_storage_bytes = 0

(* C19: get_or_create_quota is idempotent: the call that finds no row     *)
(* creates one with tier free and all counters 0, a call that finds the   *)
(* row leaves it unchanged, and no call fails, also when first calls for  *)
(* the same tenant run concurrently.                                      *)
C19_GetOrCreateIdempotent ==
    [][\A w \in Workers :
          (wk[w].pc = "goc_insert" /\ wk'[w] # wk[w]) =>
              LET t == wk[w].user IN
              /\ wk'[w].pc = wk[w].back
              /\ quotas'[t] = IF quotas[t] = NoRec
                              THEN [tier |-> "free", document_count |-> 0,
                                    total_storage_bytes |-> 0, queries_today |-> 0,
                                    last_query_reset |-> today]
                              ELSE quotas[t]]_vars

(* C20: a multi-file upload request fails as a whole only when every file *)
(* in it failed: a request that ends in a failure, of whatever kind, has  *)
(* accepted none of its files.                                            *)
C20_FailsOnlyIfAllFailed ==
    \A w \in Workers :
        (wk[w].op = "upload" /\ wk[w].pc = "done" /\ wk[w].res # "ok") =>
            wk[w].uploaded = 0

(* C21: when validation has rejected an upload, the clean-up leaves no    *)
(* staged file, nothing at the file's final location, no Document of the  *)
(* request and the quota rows as they were; and the bytes that are moved  *)
(* to a final name are bytes validation has read and accepted.            *)
C21_RejectedLeavesNothing ==
    [][\A w \in Workers :
          /\ (wk[w].pc = "up_unlink" /\ wk'[w].pc # "up_unlink") =>
                 /\ \A e \in fs' : e.path \notin {TempPath(w), FinalPath(w)}
                 /\ wk[w].doc = 0
                 /\ documents' = documents
                 /\ quotas' = quotas
          /\ (wk[w].pc = "up_rename" /\ wk'[w].pc = "up_create") =>
                 /\ wk[w].verdict = "ok"
                 /\ \A e \in fs' : e.path = FinalPath(w) => e.content = wk[w].seen]_vars


(* C22: an uploaded PDF whose bytes contain an active-content marker      *)
(* (/JavaScript, /JS, /Launch, /SubmitForm, /ImportData, /GoToR, /GoToE,  *)
(* /OpenAction, /AA) is rejected by validation, and the upload creates no *)
(* Document.                                                              *)
C22_ScriptPdfRejected ==
    \A w \in Workers :
        (Validated(w) /\ wk[w].file.ext = ".pdf" /\ wk[w].file.content.markers) =>
            /\ wk[w].verdict # "ok"
            /\ wk[w].doc = 0


(* C23: in the validation of an upload, content that begins with the ZIP  *)
(* signature passes the magic-byte scan when the declared extension is    *)
(* .docx and is rejected by that scan for every other declared extension; *)
(* content that begins with a PE, ELF or Mach-O signature is rejected by  *)
(* the scan whatever the extension.                                       *)
C23_MagicByteScan ==
    \A w \in Workers :
        (Validated(w) /\ wk[w].seen # NoRec) =>
            /\ wk[w].seen.magic = "PK" =>
                   (wk[w].verdict = "zipsig" <=> wk[w].file.ext # ".docx")
            /\ wk[w].seen.magic \in {"MZ", "ELF", "MACHO"} => wk[w].verdict = "exec"


(* The file at path p violates check c of the validator.                  *)
Violates(c, p) ==
    IF c = "exists" THEN ~Exists(p)
    ELSE Exists(p) /\ RunCheck(c, p) \notin {"ok", "skip"}

(* C24: validate_file_comprehensive runs its checks in the order          *)
(* existence, size, extension allow-list with the content-type            *)
(* comparison, magic-byte scan, decompression-bomb check, PDF marker scan *)
(* and stops at the first violated one: the reason it reports is that of  *)
(* the earliest check the file violates, the checks it has run are the    *)
(* ones up to that check and no later one, and a file that violates none  *)
(* is accepted.                                                           *)
C24_FailFastInOrder ==
    \A w \in Workers :
        (wk[w].op = "validate" /\ wk[w].pc = "done") =>
            LET p == wk[w].path
                order == <<"exists", "size", "mime", "exec", "zip", "pdf">>
                bad == {i \in 1..Len(order) : Violates(order[i], p)}
                content == IF Exists(p) THEN ContentAt(p) ELSE NoRec
            IN /\ wk[w].verdict =
                      validate_file_comprehensive(p, Exists(p), content, MAX_FILE_SIZE)
               /\ IF bad = {}
                  THEN /\ wk[w].res = "ok" /\ wk[w].verdict = "ok"
                       /\ wk[w].ran = IF Suffix(p) = ".pdf" THEN order
                                      ELSE SubSeq(order, 1, Len(order) - 1)
                  ELSE /\ wk[w].res = "rejected400"
                       /\ wk[w].verdict = RunCheck(order[MinOf(bad)], p)
                       /\ wk[w].ran = SubSeq(order, 1, MinOf(bad))

(* A file above the size limit, with an extension outside the allow-list  *)
(* and a PE signature, was rejected for its size after two checks.        *)
C24_Witness ==
    \E w \in Workers :
        /\ wk[w].op = "validate" /\ wk[w].pc = "done"
        /\ Violates("size", wk[w].path) /\ Violates("mime", wk[w].path)
        /\ Violates("exec", wk[w].path)
        /\ wk[w].verdict = "size" /\ wk[w].ran = <<"exists", "size">>


(* C25: a file of an upload request whose extension is not in             *)
(* ALLOWED_EXTENSIONS is refused with the 400 of validate_file: it is     *)
(* counted among the request's errors, a request with no accepted file    *)
(* answers with that error, nothing is written to the upload directory,   *)
(* no Document is created and no quota row changes.                       *)
C25_ExtensionNotAllowed ==
    [][\A w \in Workers :
          (/\ wk[w].pc = "up_next" /\ wk'[w] # wk[w]
           /\ Head(wk[w].rest).ext \notin ALLOWED_EXTENSIONS) =>
              /\ wk'[w].pc \in {"up_next", "done"}
              /\ wk'[w].errors = wk[w].errors + 1
              /\ wk'[w].uploaded = wk[w].uploaded
              /\ (wk'[w].pc = "done" /\ wk'[w].uploaded = 0) => wk'[w].res = "ext400"
              /\ wk'[w].doc = 0
              /\ fs' = fs /\ dirs' = dirs
              /\ documents' = documents /\ nextDocId' = nextDocId
              /\ quotas' = quotas]_vars

(* A request has ended with the refusal of an .exe file, after another    *)
(* file of the same request was refused for another reason.               *)
C25_Witness ==
    \E w \in Workers :
        /\ wk[w].op = "upload" /\ wk[w].pc = "done" /\ wk[w].res = "ext400"
        /\ wk[w].file.ext \notin ALLOWED_EXTENSIONS
        /\ wk[w].errors = 2


(* C26: a handler that calls clear_vector_db_cache for its tenant T       *)
(* removes T's entry from the cache of its process and leaves the handle  *)
(* cached under every other key, in that process and in every other one,  *)
(* as it was.                                                             *)
C26_InvalidateOnlyOwn ==
    [][\A w \in Workers :
          (/\ wk[w].op \in {"ingest", "reingest", "delete"}
           /\ wk'[w].how \in {"cleared", "dropped"} /\ wk[w].how = NULL) =>
              LET t == wk[w].user IN
              /\ cache'[w][t] = NoRec
              /\ \A key \in DOMAIN cache[w] \ {t} : cache'[w][key] = cache[w][key]
              /\ \A v \in Workers \ {w} : cache'[v] = cache[v]]_vars

(* A process that holds a handle of another tenant has invalidated the    *)
(* tenant whose request it has handled.                                   *)
C26_Witness ==
    \E w \in Workers :
        /\ wk[w].op \in {"ingest", "reingest", "delete"}
        /\ wk[w].how \in {"cleared", "dropped"}
        /\ \E u \in Tenants \ {wk[w].user} : cache[w][u] # NoRec


(* C27: the handle the cache returns to a retrieval for tenant T, for any *)
(* identifier validate_user_id admits, is one that was loaded from T's    *)
(* own index directory, never one loaded for another tenant or for the    *)
(* tenant-less global store.                                              *)
C27_OwnHandleOnly ==
    [][\A w \in Workers :
          (/\ Retrieves(w) /\ wk'[w].user # NULL
           /\ wk'[w].how \in {"hit", "hit_old", "load"}) =>
              cache'[w][CacheKey(wk'[w].user)].path = VectorPath(wk'[w].user)]_vars


(* C28: every chunk in the context retrieve_context returns for tenant T  *)
(* carries T's owner tag, on the pgvector branch as on the FAISS branch,  *)
(* also when the backend has answered the search with chunks of another   *)
(* tenant.                                                                *)
C28_PostFilter ==
    [][\A w \in Workers :
          (Retrieves(w) /\ wk'[w].user # NULL) =>
              \A c \in wk'[w].chunks : c.tag = wk'[w].user]_vars


(* The selected backend holds chunks stored for tenant t.                 *)
HasStored(t) == IF useSupabase THEN PgRowsOf(t) # {} ELSE faiss[t] # NoRec

C30_ForeignRefused ==
    [][\A w \in Workers :
          (/\ Free(w) /\ wk'[w] # wk[w]
           /\ wk'[w].op \in {"read", "delete", "reingest"}
           /\ \E d \in documents : d.id = wk'[w].doc /\ d.user_id # wk'[w].user)
              => /\ wk'[w].pc = "done"
                 /\ wk'[w].res = "error403"
                 /\ UNCHANGED <<documents, quotas, fs, dirs, pg, faiss, cache>>]_vars

(* One process has refused a read and another a deletion of a Document    *)
(* that another tenant still owns.                                        *)
C30_Witness ==
    \E v, w \in Workers :
        /\ wk[v].op = "read" /\ wk[v].res = "error403"
        /\ wk[w].op = "delete" /\ wk[w].res = "error403"
        /\ \E d \in documents : d.id = wk[w].doc /\ d.user_id # wk[w].user


(* C31: a pending Document has no chunk_count: upload creates it without  *)
(* one and a reingest request that returns the Document to pending clears *)
(* the one the previous run wrote.                                        *)
C31_PendingHasNoCount ==
    \A d \in documents : d.status = "pending" => d.chunk_count = NoCount


(* C32: a Document is set to ingested only when its own stored file was   *)
(* loaded by the run that marks it (the files do not change during these  *)
(* runs, so the file was loaded exactly when a loader can read it).       *)
C32_OwnContentLoaded ==
    [][\A d \in documents, e \in documents' :
          (d.id = e.id /\ d.status # "ingested" /\ e.status = "ingested")
              => \E f \in fs : f.path = d.path /\ load_document(f)]_vars


(* C33: a retrieval or a status check for tenant T leaves the stored      *)
(* indexes, every other process's cache and every other key of its own    *)
(* cache as they were.  With an entry under T's key the cache is          *)
(* unchanged and nothing is loaded; without one, the handle loaded from   *)
(* T's index is under T's key afterwards when the FAISS path served the   *)
(* call and T has an index, and otherwise the cache is unchanged.         *)
C33_ReadKeepsCache ==
    [][\A w \in Workers :
          (Free(w) /\ wk'[w] # wk[w] /\ wk'[w].op \in {"retrieve", "status"}) =>
              LET t == wk'[w].user
                  key == CacheKey(t)
              IN /\ UNCHANGED <<faiss, pg>>
                 /\ \A v \in Workers \ {w} : cache'[v] = cache[v]
                 /\ \A k \in DOMAIN cache[w] \ {key} : cache'[w][k] = cache[w][k]
                 /\ cache[w][key] # NoRec =>
                        cache' = cache /\ wk'[w].how \in {"hit", "hit_old", "pg"}
                 /\ (cache[w][key] = NoRec /\ wk'[w].how # "pg") =>
                        IF faiss[VectorPath(t)] = NoRec
                        THEN cache' = cache /\ wk'[w].how = "none"
                        ELSE /\ wk'[w].how = "load"
                             /\ cache'[w][key] # NoRec
                             /\ cache'[w][key].chunks = faiss[VectorPath(t)].chunks
                 /\ wk'[w].how = "pg" => cache' = cache]_vars

(* One process answered a status check from the handle it had cached and  *)
(* still holds it; another loaded the handle in a retrieval.              *)
C33_Witness ==
    \E v, w \in Workers :
        /\ wk[w].op = "status" /\ wk[w].how = "hit" /\ wk[w].res = "ready"
        /\ cache[w][wk[w].user] # NoRec
        /\ wk[v].op = "retrieve" /\ wk[v].how = "load"
        /\ cache[v][wk[v].user] # NoRec


(* C34: when no request is in progress, a tenant's quota row counts the   *)
(* tenant's Document rows and sums their sizes: no increment or decrement *)
(* of a completed upload or deletion was lost or applied twice.           *)
C34_LedgerMatchesRows ==
    (\A w \in Workers : Free(w)) =>
        \A t \in active :
            quotas[t] # NoRec =>
                /\ quotas[t].document_count = Cardinality(DocsOf(t))
                /\ quotas[t].total_storage_bytes = SumSizes(DocsOf(t))


(* The chunks derived from the files of tenant t's current Documents.     *)
DerivedChunks(t) ==
    UNION {ChunksOf(e, t) :
              e \in {f \in fs : load_document(f)
                                 /\ \E d \in DocsOf(t) : d.path = f.path}}

(* The chunks the selected backend holds for tenant t.                    *)
StoredChunks(t) ==
    IF useSupabase THEN {r.chunk : r \in PgRowsOf(t)}
    ELSE IF faiss[VectorPath(t)] = NoRec THEN {}
    ELSE faiss[VectorPath(t)].chunks

(* C35: when no request is in progress, an ingestion, reingestion or      *)
(* deletion of tenant T has completed and every Document T still has is   *)
(* ingested, the selected backend holds for T exactly the chunks derived  *)
(* from T's current Documents, each once.                                 *)
C35_ExactlyCurrentChunks ==
    (\A w \in Workers : Free(w)) =>
        \A t \in active :
            (/\ \E w \in Workers : /\ wk[w].user = t /\ wk[w].res = "ok"
                                   /\ wk[w].op \in {"ingest", "reingest", "delete"}
             /\ \A d \in DocsOf(t) : d.status = "ingested")
                => /\ StoredChunks(t) = DerivedChunks(t)
                   /\ useSupabase => \A r \in PgRowsOf(t) : pg[r] = 1


(* C36: an ingestion that answers with a failure has stored no chunks,    *)
(* and when no other process has worked for the tenant, none of the       *)
(* Documents it found pending is ingested.                                *)
C36_FailureStoresNothing ==
    [][\A w \in Workers :
          (/\ wk[w].op = "ingest" /\ ~Free(w)
           /\ wk'[w].pc = "done" /\ wk'[w].res \in Failures)
              => /\ wk[w].size = 0
                 /\ (\A v \in Workers \ {w} : wk[v].user # wk[w].user)
                        => \A d \in documents' :
                               d.id \in wk[w].pend => d.status # "ingested"]_vars


(* C37: two accepted uploads of one filename by one tenant have created   *)
(* two Documents with different stored paths, and the file at each path   *)
(* holds the content of its own upload.                                   *)
C37_NoOverwrite ==
    \A v, w \in Workers :
        (/\ v # w
         /\ wk[v].op = "upload" /\ wk[v].pc = "done" /\ wk[v].res = "ok"
         /\ wk[w].op = "upload" /\ wk[w].pc = "done" /\ wk[w].res = "ok"
         /\ wk[v].user = wk[w].user
         /\ wk[v].file.name = wk[w].file.name /\ wk[v].file.ext = wk[w].file.ext)
            => /\ wk[v].doc # wk[w].doc
               /\ Row(documents, wk[v].doc).path # Row(documents, wk[w].doc).path
               /\ \A u \in {v, w} :
                      /\ Exists(Row(documents, wk[u].doc).path)
                      /\ ContentAt(Row(documents, wk[u].doc).path) = wk[u].file.content


(* C38: validating the staged copy of an upload, its final name with      *)
(* ".tmp" appended, gives the verdict that validating the same bytes      *)
(* under the final name gives, for every allowed extension and content.   *)
C38_StagedSameVerdict ==
    \A w \in Workers :
        (/\ wk[w].op = "validate" /\ wk[w].pc = "done"
         /\ wk[w].path.tmp /\ wk[w].path.ext \in ALLOWED_EXTENSIONS
         /\ Exists(wk[w].path))
            => wk[w].verdict =
                  validate_file_comprehensive([wk[w].path EXCEPT !.tmp = FALSE], TRUE,
                                              ContentAt(wk[w].path), MAX_FILE_SIZE)

====
